---- MODULE Spec2Model ----
(***************************************************************************)
(* A model of the GameCube memory card driver of src/adapter.py: the       *)
(* address codec, the header checksum, the GCM session and its commands,   *)
(* and the whole-card read / differential write of main().                 *)
(*                                                                         *)
(* Integers of the model are TLC integers (below 2^31); every quantity     *)
(* modelled here stays below 2^26.                                         *)
(***************************************************************************)
EXTENDS Integers, Sequences, FiniteSets, TLC

VARIABLES
    \* the card and its wiring (the environment of the driver)
    exi,        \* the 4 bytes the card answers to exi_id
    gpio,       \* whether the completion signal line (gpio_int) is bound
    cardInt,    \* whether the card can raise interrupts (INT_EN can be set)
    status,     \* the card's status register
    flash0,     \* the content of the card's flash when the run starts
    mem,        \* the pages of the flash changed since, page index -> byte
    cardop,     \* the erase or program the card is busy with
    events,     \* falling edges queued on the signal line and not yet consumed
    \* the session (the GCM object)
    self,       \* _card_size, _turnaround_bytes, _sector_size, _has_interrupt, _flash_id
    call,       \* the GCM method running, with its arguments
    step,       \* where that method is
    err,        \* the exception raised
    last_status,\* the result of the last get_status()
    \* main() and the callers of the session
    pc,         \* where the caller is
    ncalls,     \* how many methods an API client has called
    mode,       \* the action chosen on the command line
    original_content, new_content,  \* the OLD and NEW images of --write
    pos, slice_pos, diff_count,     \* the locals of main()'s loops
    output,                         \* the file main() writes when it reads the card
    \* history
    bus,        \* the bus transactions of the method running (or last run)
    ops,        \* the read, erase, write and sleep commands sent during the run
    \* pure-function runs
    fcall,      \* the function applied and how far the run is
    fin,        \* the input
    fmid,       \* the intermediate value (the encoded bytes)
    fout        \* the result

cardvars == <<exi, gpio, cardInt, status, flash0, mem, cardop, events>>
gcmvars == <<self, call, step, err, last_status>>
mainvars == <<pc, ncalls, mode, original_content, new_content, pos, slice_pos, diff_count, output>>
histvars == <<bus, ops>>
fvars == <<fcall, fin, fmid, fout>>
vars == <<cardvars, gcmvars, mainvars, histvars, fvars>>

(***************************************************************************)
(* Bit operations on naturals, as Python's >> and & compute them.          *)
(***************************************************************************)
Shr(a, n) == a \div (2 ^ n)

RECURSIVE BitAnd(_, _)
BitAnd(a, b) ==
    IF a = 0 \/ b = 0 THEN 0
    ELSE (a % 2) * (b % 2) + 2 * BitAnd(a \div 2, b \div 2)

None == "None"

(***************************************************************************)
(* Program constants.                                                      *)
(***************************************************************************)
READ_SZ == 512
WRITE_SZ == 128

(***************************************************************************)
(* The address codec.                                                      *)
(***************************************************************************)
\* GCM._addr_to_bytes with the first byte not masked (a mutant).
addr_to_bytes_keep_b0(address) ==
    << Shr(address, 17),
       BitAnd(Shr(address, 9), 255),
       BitAnd(Shr(address, 7), 3),
       BitAnd(address, 127) >>

\* GCM._addr_to_bytes with the second byte shifted as the first (a mutant).
addr_to_bytes_shift(address) ==
    << BitAnd(Shr(address, 17), 127),
       BitAnd(Shr(address, 8), 255),
       BitAnd(Shr(address, 7), 3),
       BitAnd(address, 127) >>

\* GCM._addr_to_bytes
addr_to_bytes(address) ==
    << BitAnd(Shr(address, 17), 127),
       BitAnd(Shr(address, 9), 255),
       BitAnd(Shr(address, 7), 3),
       BitAnd(address, 127) >>

\* raspi/adapter.py addr_to_bytes
raspi_addr_to_bytes(address) ==
    << BitAnd(Shr(address, 17), 255),
       BitAnd(Shr(address, 9), 255),
       BitAnd(Shr(address, 7), 3),
       BitAnd(address, 127) >>

\* raspi/adapter.py addr_from_bytes
addr_from_bytes(addr_bytes) ==
    addr_bytes[1] * (2 ^ 17) + addr_bytes[2] * (2 ^ 9)
        + BitAnd(addr_bytes[3], 3) * (2 ^ 7) + BitAnd(addr_bytes[4], 127)

\* read-memcard-traffic.py unpack_addr
unpack_addr(request) ==
    (request[1] * (2 ^ 17)) + (request[2] * (2 ^ 9))
        + (BitAnd(request[3], 3) * (2 ^ 7)) + BitAnd(request[4], 127)

(***************************************************************************)
(* The checksum.                                                           *)
(***************************************************************************)
\* The loop of _checksum over the words first .. last of the region, the range
\* taken by halves: the sum of the big-endian 16-bit words.
RECURSIVE checksum_words(_, _, _)
checksum_words(data, first, last) ==
    IF first > last THEN 0
    ELSE IF first = last THEN data[2 * first - 1] * 256 + data[2 * first]
    ELSE LET mid == (first + last) \div 2
         IN  checksum_words(data, first, mid) + checksum_words(data, mid + 1, last)

checksum_total(data, i) == checksum_words(data, (i + 1) \div 2, Len(data) \div 2)

\* _checksum adding the byte count instead of the word count (a mutant).
checksum_bytecount(data) ==
    IF Len(data) % 2 = 1 THEN [raise |-> "ValueError", ret |-> <<>>]
    ELSE LET total == checksum_total(data, 1)
             checksum1 == total % 65536
             checksum2 == (-(total + Len(data))) % 65536
         IN  [raise |-> "",
              ret |-> << IF checksum1 = 65535 THEN 0 ELSE checksum1,
                         IF checksum2 = 65535 THEN 0 ELSE checksum2 >>]

\* _checksum
checksum(data) ==
    IF Len(data) % 2 = 1 THEN [raise |-> "ValueError", ret |-> <<>>]
    ELSE LET total == checksum_total(data, 1)
             checksum1 == total % 65536
             checksum2 == (-(total + Len(data) \div 2)) % 65536
         IN  [raise |-> "",
              ret |-> << IF checksum1 = 65535 THEN 0 ELSE checksum1,
                         IF checksum2 = 65535 THEN 0 ELSE checksum2 >>]

(***************************************************************************)
(* The card status flags (CardStatus).                                     *)
(***************************************************************************)
READY == 1
INT_EN == 2
PROGRAMEERROR == 8
ERASEERROR == 16
SLEEP == 32
UNLOCKED == 64
BUSY == 128

Has(s, flag) == BitAnd(s, flag) # 0
With(s, flag) == IF Has(s, flag) THEN s ELSE s + flag
Without(s, flag) == IF Has(s, flag) THEN s - flag ELSE s

(***************************************************************************)
(* Exceptions. An exception is its type and its message (for a ValueError  *)
(* raised with a number, the expression that gives the number).            *)
(***************************************************************************)
NoErr == [type |-> "", msg |-> ""]
ValueError(msg) == [type |-> "ValueError", msg |-> msg]
TimeoutError == [type |-> "TimeoutError", msg |-> ""]
IndexError == [type |-> "IndexError", msg |-> "tuple index out of range"]

(***************************************************************************)
(* Images. All bytes of a 0x80-byte page of an image are equal, so an      *)
(* image is its length in bytes, the byte of most of its pages and the     *)
(* bytes of the other pages (page index -> byte).                          *)
(***************************************************************************)
NoPatch == [p \in {} |-> 0]
NoImage == [len |-> 0, fill |-> 0, patch |-> NoPatch]
At(img, p) == IF p \in DOMAIN img.patch THEN img.patch[p] ELSE img.fill

\* content[start:start + size], page by page (start and size page-aligned)
Slice(img, start, size) ==
    [j \in 0 .. (size \div WRITE_SZ) - 1 |-> At(img, start \div WRITE_SZ + j)]

\* The data of one write: its length and the byte it repeats.
NoData == [len |-> 0, fill |-> 0]

(***************************************************************************)
(* The identification word. exi_id is kept as its two 16-bit halves.       *)
(***************************************************************************)
SECTOR_SIZE_LIST == <<8192, 16384, 32768, 65536, 131072, 262144>>
CARD_LATENCY_LIST == <<4, 8, 16, 32, 64, 128, 256, 512>>
ID_CARD_SIZE_SHIFT == 2
ID_CARD_SIZE_MASK == 63
CARD_LATENCY_IDX_SHIFT == 8
CARD_LATENCY_IDX_MASK == 7
SECTOR_SIZE_IDX_SHIFT == 11
SECTOR_SIZE_IDX_MASK == 7

\* int.from_bytes(..., 'big') of the 4 bytes, as (high half, low half)
exi_hi(b) == b[1] * 256 + b[2]
exi_lo(b) == b[3] * 256 + b[4]

\* not exi_id
exi_is_zero(b) == exi_hi(b) = 0 /\ exi_lo(b) = 0

\* exi_id & 0xffffc003 with the mask 0xffffc000 (a mutant)
exi_is_reserved_c000(b) == BitAnd(exi_hi(b), 65535) # 0 \/ BitAnd(exi_lo(b), 49152) # 0

\* exi_id & 0xffffc003
exi_is_reserved(b) == BitAnd(exi_hi(b), 65535) # 0 \/ BitAnd(exi_lo(b), 49155) # 0

\* the card size shifted by 17 instead of 19 (a mutant)
exi_card_size_17(b) ==
    BitAnd(Shr(exi_lo(b), ID_CARD_SIZE_SHIFT), ID_CARD_SIZE_MASK) * (2 ^ 17)

\* self._card_size (the fields read lie in the low half)
exi_card_size(b) ==
    BitAnd(Shr(exi_lo(b), ID_CARD_SIZE_SHIFT), ID_CARD_SIZE_MASK) * (2 ^ 19)

exi_latency_idx(b) == BitAnd(Shr(exi_lo(b), CARD_LATENCY_IDX_SHIFT), CARD_LATENCY_IDX_MASK)
exi_sector_idx(b) == BitAnd(Shr(exi_lo(b), SECTOR_SIZE_IDX_SHIFT), SECTOR_SIZE_IDX_MASK)

\* len(self._turnaround_bytes)
exi_turnaround(b) == CARD_LATENCY_LIST[exi_latency_idx(b) + 1]

\* whether _SECTOR_SIZE_LIST[...] raises IndexError
exi_sector_fails(b) == exi_sector_idx(b) + 1 > Len(SECTOR_SIZE_LIST)

\* sector sizes that grow by 0x2000 from an index to the next (a mutant)
exi_sector_size_linear(b) == (exi_sector_idx(b) + 1) * SECTOR_SIZE_LIST[1]

\* self._sector_size
exi_sector_size(b) == SECTOR_SIZE_LIST[exi_sector_idx(b) + 1]

(***************************************************************************)
(* The session object. A field not assigned yet is Unset.                  *)
(***************************************************************************)
Unset == -1
NoFlashId == <<>>
NoSelf ==
    [card_size |-> Unset, turnaround_bytes |-> Unset, sector_size |-> Unset,
     has_interrupt |-> FALSE, flash_id |-> NoFlashId]

\* The session main() gets for a card answering b, as GCM.__init__ leaves it.
Constructed(b, has_int, fid) ==
    [card_size |-> exi_card_size(b), turnaround_bytes |-> exi_turnaround(b),
     sector_size |-> exi_sector_size(b), has_interrupt |-> has_int, flash_id |-> fid]

(***************************************************************************)
(* Bus transactions: the bytes sent, the turnaround bytes sent after them, *)
(* the data sent after them (a write) and the number of bytes received.    *)
(***************************************************************************)
Xfer(cmd, tx, pad, data, rx) ==
    [cmd |-> cmd, tx |-> tx, pad |-> pad, data |-> data, rx |-> rx, reply |-> <<>>]

xfer_exi_id == Xfer("exi_id", <<0, 0>>, 0, NoData, 4)
xfer_get_id == Xfer("get_id", <<133, 0>>, 0, NoData, 2)
xfer_get_status == Xfer("get_status", <<131, 0>>, 0, NoData, 1)
\* get_status with the status byte the card answers
xfer_get_status_of(s) == [xfer_get_status EXCEPT !.reply = <<s>>]
xfer_clear_status == Xfer("clear_status", <<137>>, 0, NoData, 0)
xfer_wake_up == Xfer("wake_up", <<135>>, 0, NoData, 0)
xfer_sleep == Xfer("sleep", <<136>>, 0, NoData, 0)
xfer_set_interrupt(enable) ==
    Xfer("set_interrupt", <<129, IF enable THEN 1 ELSE 0, 0, 0>>, 0, NoData, 0)
xfer_erase_card == Xfer("erase_card", <<244, 0, 0>>, 0, NoData, 0)
xfer_erase_sector(address) ==
    Xfer("erase_sector", <<241>> \o SubSeq(addr_to_bytes(address), 1, 2), 0, NoData, 0)
xfer_write_page(address, data) ==
    Xfer("write_page", <<242>> \o addr_to_bytes(address), 0, data, 0)
\* _raw_read_page with the turnaround of the fastest card (a mutant)
xfer_raw_read_page_4(address_bytes, length) ==
    Xfer("read_page", <<82>> \o address_bytes, 4, NoData, length)

\* _raw_read_page: 0x52 and the address bytes, self._turnaround_bytes (their
\* number: all are zero), and length bytes received
xfer_raw_read_page(address_bytes, length) ==
    Xfer("read_page", <<82>> \o address_bytes, self.turnaround_bytes, NoData, length)

(***************************************************************************)
(* The card. Its flash is flash0 with the pages of mem over it.            *)
(***************************************************************************)
NoCardOp == [kind |-> "", address |-> 0, data |-> NoData]
CardPage(p) == IF p \in DOMAIN mem THEN mem[p] ELSE At(flash0, p)
Erased == 255

\* The address the card reads from 4 address bytes (as unpack_addr reads a trace).
CardAddress(address_bytes) == unpack_addr(address_bytes)

\* The pages of the card's erase sector holding address a.
CardSectorPages(a) ==
    LET ss == exi_sector_size(exi)
        first == ((a \div ss) * ss) \div WRITE_SZ
    IN  first .. first + (ss \div WRITE_SZ) - 1

\* The flash once the operation o has been carried out.
CardFlashAfter(o) ==
    CASE o.kind = "erase_sector" ->
            [flash0 |-> flash0,
             mem |-> [p \in DOMAIN mem \cup CardSectorPages(o.address) |->
                        IF p \in CardSectorPages(o.address) THEN Erased ELSE mem[p]]]
      [] o.kind = "erase_card" ->
            [flash0 |-> [len |-> flash0.len, fill |-> Erased, patch |-> NoPatch],
             mem |-> NoPatch]
      [] o.kind = "write_page" ->
            LET p == o.address \div WRITE_SZ
            IN  [flash0 |-> flash0,
                 mem |-> [q \in DOMAIN mem \cup {p} |->
                            IF q = p THEN BitAnd(CardPage(p), o.data.fill) ELSE mem[q]]]
      [] OTHER -> [flash0 |-> flash0, mem |-> mem]

\* Edges queued on the signal line are counted up to MaxEvents.
MaxEvents == 2

\* The card receives an erase or a program: it turns BUSY. A card that is
\* BUSY drops the command.
CardReceives(o) ==
    IF Has(status, BUSY)
    THEN UNCHANGED <<status, cardop>>
    ELSE /\ status' = With(status, BUSY)
         /\ cardop' = o

\* The card ends the operation it is busy with: it succeeds (ok) or sets the
\* error flag of the operation; with interrupts enabled its INT line falls.
CardCompletes(ok) ==
    /\ status' = LET s == Without(status, BUSY)
                 IN  IF ok THEN s
                     ELSE IF cardop.kind = "write_page" THEN With(s, PROGRAMEERROR)
                     ELSE With(s, ERASEERROR)
    /\ flash0' = IF ok THEN CardFlashAfter(cardop).flash0 ELSE flash0
    /\ mem' = IF ok THEN CardFlashAfter(cardop).mem ELSE mem
    /\ cardop' = NoCardOp
    /\ events' = IF Has(status, INT_EN) /\ events < MaxEvents THEN events + 1 ELSE events

CardDone ==
    /\ Has(status, BUSY)
    /\ \E ok \in BOOLEAN : CardCompletes(ok)
    /\ UNCHANGED <<exi, gpio, cardInt>>
    /\ UNCHANGED <<gcmvars, mainvars, histvars, fvars>>

(***************************************************************************)
(* The methods of the session. A method runs in steps, one bus             *)
(* transaction or one wait each; its caller goes on when it has returned   *)
(* (step = "ret") and sees its exception when it has raised ("raised").    *)
(***************************************************************************)
NoCall == [name |-> "", address |-> 0, length |-> 0, data |-> NoData]
CallOf(name, address, length, data) ==
    [name |-> name, address |-> address, length |-> length, data |-> data]

\* GCM.read_page: the checks of its arguments
read_page_check(address, length) ==
    IF address % READ_SZ # 0 THEN ValueError("address % READ_SZ")
    ELSE IF length > READ_SZ THEN ValueError("length")
    ELSE NoErr

\* write_page accepting any address (a mutant)
write_page_check_unaligned(address, data) ==
    IF data.len > WRITE_SZ THEN ValueError("len(data)") ELSE NoErr

\* GCM.write_page: the checks of its arguments
write_page_check(address, data) ==
    IF data.len > WRITE_SZ THEN ValueError("len(data)")
    ELSE IF address % WRITE_SZ # 0 THEN ValueError("address % WRITE_SZ")
    ELSE NoErr

\* GCM.erase_sector: the check of its argument
erase_sector_check(address) ==
    IF address % self.sector_size # 0 THEN ValueError("address % self._sector_size")
    ELSE NoErr

ArgCheck(c) ==
    CASE c.name = "read_page" -> read_page_check(c.address, c.length)
      [] c.name = "write_page" -> write_page_check(c.address, c.data)
      [] c.name = "erase_sector" -> erase_sector_check(c.address)
      [] OTHER -> NoErr

LongCommands == {"erase_sector", "write_page", "erase_card"}

\* a method that sends its command at once (a mutant)
first_transfer_command(c) == "tx"

\* The first transaction of the method c: the erases and the program clear the
\* status, the others send their command
first_transfer(c) == IF c.name \in LongCommands THEN "clear_status" ELSE "tx"

\* A caller calls the method c: its arguments are checked before anything is sent.
Enter(c) ==
    /\ call' = c
    /\ bus' = <<>>
    /\ err' = ArgCheck(c)
    /\ step' = IF ArgCheck(c) # NoErr THEN "raised" ELSE first_transfer(c)

\* GCM.clear_status, as erase_sector, write_page and erase_card call it first
clear_status ==
    /\ step = "clear_status"
    /\ bus' = Append(bus, xfer_clear_status)
    /\ status' = Without(Without(status, PROGRAMEERROR), ERASEERROR)
    /\ step' = "tx"
    /\ UNCHANGED <<exi, gpio, cardInt, flash0, mem, cardop, events>>
    /\ UNCHANGED <<self, call, err, last_status, ops>>
    /\ UNCHANGED <<mainvars, fvars>>

\* The transaction that carries the command of the method c.
CommandXfer(c) ==
    CASE c.name = "erase_sector" -> xfer_erase_sector(c.address)
      [] c.name = "write_page" -> xfer_write_page(c.address, c.data)
      [] c.name = "erase_card" -> xfer_erase_card
      [] c.name = "read_page" -> xfer_raw_read_page(addr_to_bytes(c.address), c.length)
      [] OTHER -> xfer_sleep

\* What the card makes of an erase or program transaction.
CardOpOf(x) ==
    CASE x.cmd = "erase_sector" ->
            [kind |-> "erase_sector",
             address |-> CardAddress(<<x.tx[2], x.tx[3], 0, 0>>), data |-> NoData]
      [] x.cmd = "write_page" ->
            [kind |-> "write_page",
             address |-> CardAddress(SubSeq(x.tx, 2, 5)), data |-> x.data]
      [] OTHER -> [kind |-> x.cmd, address |-> 0, data |-> NoData]

LogOp(c) == [op |-> c.name, address |-> c.address, length |-> c.length, data |-> c.data]

\* erase_sector, write_page, erase_card: the transfer of the command
send_command ==
    /\ step = "tx"
    /\ call.name \in LongCommands
    /\ bus' = Append(bus, CommandXfer(call))
    /\ ops' = Append(ops, LogOp(call))
    /\ CardReceives(CardOpOf(CommandXfer(call)))
    /\ step' = "wait"
    /\ UNCHANGED <<exi, gpio, cardInt, flash0, mem, events>>
    /\ UNCHANGED <<self, call, err, last_status>>
    /\ UNCHANGED <<mainvars, fvars>>

\* GCM.read_page: the read transaction
read_page_transfer ==
    /\ step = "tx"
    /\ call.name = "read_page"
    /\ bus' = Append(bus, CommandXfer(call))
    /\ ops' = Append(ops, LogOp(call))
    /\ step' = "ret"
    /\ UNCHANGED <<cardvars, self, call, err, last_status, mainvars, fvars>>

\* GCM.get_status, called by a client
get_status ==
    /\ step = "tx"
    /\ call.name = "get_status"
    /\ bus' = Append(bus, xfer_get_status_of(status))
    /\ last_status' = status
    /\ step' = "ret"
    /\ UNCHANGED <<cardvars, self, call, err, ops, mainvars, fvars>>

\* GCM.sleep
sleep ==
    /\ step = "tx"
    /\ call.name = "sleep"
    /\ bus' = Append(bus, xfer_sleep)
    /\ ops' = Append(ops, LogOp(call))
    /\ status' = With(status, SLEEP)
    /\ step' = "ret"
    /\ UNCHANGED <<exi, gpio, cardInt, flash0, mem, cardop, events>>
    /\ UNCHANGED <<self, call, err, last_status, mainvars, fvars>>

\* _waitForIdle's default timeout, in seconds, and the polls it allows
waitForIdle_timeout == 1
\* a loop of one poll for each second of the timeout (a mutant)
PollLimit_seconds == waitForIdle_timeout
PollLimit == waitForIdle_timeout * 1000

\* A card found BUSY by the first poll is found idle by poll number n, n one of:
PollProbes == {2, 3, PollLimit}

Polls(n, s) == [i \in 1 .. n |-> xfer_get_status_of(s)]

\* _waitForIdle with interrupts: it goes on when poll() gave an event, raises
\* TimeoutError when it gave none
waitForIdle_event_result(polled) ==
    IF polled THEN [raise |-> NoErr, step |-> "check"]
    ELSE [raise |-> TimeoutError, step |-> "raised"]

\* _waitForIdle with interrupts: an edge is queued, poll() returns and getEvent()
\* consumes it
waitForIdle_event ==
    /\ step = "wait"
    /\ self.has_interrupt
    /\ events > 0
    /\ events' = events - 1
    /\ step' = waitForIdle_event_result(TRUE).step
    /\ UNCHANGED <<exi, gpio, cardInt, status, flash0, mem, cardop>>
    /\ UNCHANGED <<self, call, err, last_status, mainvars, histvars, fvars>>

\* _waitForIdle with interrupts: no edge within the timeout
waitForIdle_event_timeout ==
    /\ step = "wait"
    /\ self.has_interrupt
    /\ events = 0
    /\ err' = waitForIdle_event_result(FALSE).raise
    /\ step' = waitForIdle_event_result(FALSE).step
    /\ UNCHANGED <<cardvars, self, call, last_status, mainvars, histvars, fvars>>

\* _waitForIdle without interrupts: the whole polling loop. The card ends its
\* operation between two polls, or stays BUSY through all of them.
waitForIdle_poll ==
    /\ step = "wait"
    /\ ~self.has_interrupt
    /\ IF ~Has(status, BUSY)
       THEN /\ bus' = bus \o Polls(1, status)
            /\ last_status' = status
            /\ step' = "check"
            /\ UNCHANGED <<status, flash0, mem, cardop, events, err>>
       ELSE \/ \E n \in PollProbes, ok \in BOOLEAN :
                 /\ CardCompletes(ok)
                 /\ bus' = bus \o Polls(n - 1, status) \o Polls(1, status')
                 /\ last_status' = status'
                 /\ step' = "check"
                 /\ UNCHANGED err
            \/ /\ bus' = bus \o Polls(PollLimit, status)
               /\ last_status' = status
               /\ err' = TimeoutError
               /\ step' = "raised"
               /\ UNCHANGED <<status, flash0, mem, cardop, events>>
    /\ UNCHANGED <<exi, gpio, cardInt, self, call, ops, mainvars, fvars>>

\* GCM.write_page: the error it raises on the status s read after the wait
write_page_error(s) ==
    IF Has(s, PROGRAMEERROR) THEN ValueError("Erase failed") ELSE NoErr

\* GCM.erase_sector: the error it raises on the status s read after the wait
erase_sector_error(s) ==
    IF Has(s, ERASEERROR) THEN ValueError("Erase failed") ELSE NoErr

\* GCM.erase_card: the error it raises on the status s read after the wait
erase_card_error(s) ==
    IF Has(s, ERASEERROR) THEN ValueError("Erase failed") ELSE NoErr

CheckError(c, s) ==
    CASE c.name = "write_page" -> write_page_error(s)
      [] c.name = "erase_sector" -> erase_sector_error(s)
      [] OTHER -> erase_card_error(s)

\* erase_sector, write_page, erase_card: the status read after the wait
check_status ==
    /\ step = "check"
    /\ bus' = Append(bus, xfer_get_status_of(status))
    /\ last_status' = status
    /\ err' = CheckError(call, status)
    /\ step' = IF CheckError(call, status) # NoErr THEN "raised" ELSE "ret"
    /\ UNCHANGED <<cardvars, self, call, ops, mainvars, fvars>>

(***************************************************************************)
(* The values of the variables a specification does not use.               *)
(***************************************************************************)
PureIdle ==
    /\ fcall = ""
    /\ fin = 0
    /\ fmid = <<>>
    /\ fout = None

CardIdle ==
    /\ exi = <<0, 0, 0, 0>>
    /\ gpio = FALSE
    /\ cardInt = FALSE
    /\ status = 0
    /\ flash0 = NoImage
    /\ mem = NoPatch
    /\ cardop = NoCardOp
    /\ events = 0

MainIdle ==
    /\ ncalls = 0
    /\ mode = ""
    /\ original_content = NoImage
    /\ new_content = NoImage
    /\ pos = 0
    /\ slice_pos = 0
    /\ diff_count = 0
    /\ output = NoImage

DriverIdle ==
    /\ CardIdle
    /\ MainIdle
    /\ self = NoSelf
    /\ call = NoCall
    /\ step = ""
    /\ err = NoErr
    /\ last_status = 0
    /\ pc = ""
    /\ bus = <<>>
    /\ ops = <<>>

\* The 12 bytes of the card's flash id.
CardSerial == <<1, 2, 3, 4, 5, 6, 7, 8, 9, 10, 11, 12>>

ZeroImage(size) == [len |-> size, fill |-> 0, patch |-> NoPatch]

(***************************************************************************)
(* A client of a constructed session: it calls the methods of the session  *)
(* with arguments of its choice, one call after the other, and goes on     *)
(* after an exception.                                                     *)
(***************************************************************************)
\* The client makes at most MaxCalls calls.
MaxCalls == 2

\* The 512 KiB card: 4 turnaround bytes, 0x2000-byte sectors.
ApiExi == <<0, 0, 0, 4>>

ApiData == { [len |-> 128, fill |-> 15], [len |-> 129, fill |-> 15] }

ApiCalls ==
    { CallOf("erase_sector", a, 0, NoData) : a \in {0, 8192, 128} }
    \cup { CallOf("write_page", a, 0, d) : a \in {0, 128, 64}, d \in ApiData }
    \cup { CallOf("read_page", a, n, NoData) : a \in {0, 512, 128}, n \in {512, 12, 513} }
    \cup { CallOf("erase_card", 0, 0, NoData), CallOf("get_status", 0, 0, NoData) }

ApiInit ==
    /\ PureIdle
    /\ MainIdle
    /\ exi = ApiExi
    /\ gpio \in BOOLEAN
    /\ cardInt \in BOOLEAN
    /\ status = READY + UNLOCKED + (IF gpio /\ cardInt THEN INT_EN ELSE 0)
    /\ flash0 = ZeroImage(exi_card_size(exi))
    /\ mem = NoPatch
    /\ cardop = NoCardOp
    /\ events = 0
    /\ self = Constructed(exi, gpio /\ cardInt, CardSerial)
    /\ call = NoCall
    /\ step = "ret"
    /\ err = NoErr
    /\ last_status = status
    /\ pc = "api"
    /\ bus = <<>>
    /\ ops = <<>>

ApiCall ==
    /\ pc = "api"
    /\ step \in {"ret", "raised"}
    /\ ncalls < MaxCalls
    /\ ncalls' = ncalls + 1
    /\ \E c \in ApiCalls : Enter(c)
    /\ UNCHANGED <<cardvars, self, last_status, ops, fvars>>
    /\ UNCHANGED <<output, pc, mode, original_content, new_content, pos, slice_pos, diff_count>>

ApiNext ==
    \/ ApiCall
    \/ clear_status
    \/ send_command
    \/ read_page_transfer
    \/ get_status
    \/ waitForIdle_event
    \/ waitForIdle_event_timeout
    \/ waitForIdle_poll
    \/ check_status
    \/ CardDone

SpecApi == ApiInit /\ [][ApiNext]_vars

(***************************************************************************)
(* A client of a session without the interrupt line: it calls the erases   *)
(* and the program with valid arguments. The polling loop is code of the   *)
(* one thread of the program, which nothing suspends: once entered it runs.*)
(***************************************************************************)
PolledCalls ==
    { CallOf("erase_sector", 8192, 0, NoData),
      CallOf("write_page", 128, 0, [len |-> 128, fill |-> 15]),
      CallOf("erase_card", 0, 0, NoData) }

PolledInit == ApiInit /\ ~gpio

PolledCall ==
    /\ pc = "api"
    /\ step \in {"ret", "raised"}
    /\ ncalls < MaxCalls
    /\ ncalls' = ncalls + 1
    /\ \E c \in PolledCalls : Enter(c)
    /\ UNCHANGED <<cardvars, self, last_status, ops, fvars>>
    /\ UNCHANGED <<output, pc, mode, original_content, new_content, pos, slice_pos, diff_count>>

PolledNext ==
    \/ PolledCall
    \/ clear_status
    \/ send_command
    \/ waitForIdle_poll
    \/ check_status
    \/ CardDone

SpecPolled == PolledInit /\ [][PolledNext]_vars /\ WF_vars(waitForIdle_poll)

\* The same client of a session with or without the interrupt line.
LongNext ==
    \/ PolledCall
    \/ clear_status
    \/ send_command
    \/ waitForIdle_event
    \/ waitForIdle_event_timeout
    \/ waitForIdle_poll
    \/ check_status
    \/ CardDone

SpecLong == ApiInit /\ [][LongNext]_vars

(***************************************************************************)
(* The handshake cipher (_HandshakeCipher). A 32-bit word is the pair of   *)
(* its 16-bit halves, the high half first.                                 *)
(***************************************************************************)
RECURSIVE BitOr(_, _)
BitOr(a, b) ==
    IF a = 0 THEN b
    ELSE IF b = 0 THEN a
    ELSE (IF a % 2 = 1 \/ b % 2 = 1 THEN 1 ELSE 0) + 2 * BitOr(a \div 2, b \div 2)

\* ((state & up) >> n) | ((state & down) << n), in one half of the word
swap_stage(x, up, down, n) == BitOr(Shr(BitAnd(x, up), n), BitAnd(x, down) * (2 ^ n))

\* _HandshakeCipher.__init__ without its last stage (a mutant)
cipher_init_four_stages(state) ==
    LET s16 == <<state[2], state[1]>>
        s8 == [h \in 1 .. 2 |-> swap_stage(s16[h], 65280, 255, 8)]
        s4 == [h \in 1 .. 2 |-> swap_stage(s8[h], 61680, 3855, 4)]
    IN  [h \in 1 .. 2 |-> swap_stage(s4[h], 52428, 13107, 2)]

\* _HandshakeCipher.__init__: the state made from the seed
cipher_init(state) ==
    LET s16 == <<state[2], state[1]>>
        s8 == [h \in 1 .. 2 |-> swap_stage(s16[h], 65280, 255, 8)]
        s4 == [h \in 1 .. 2 |-> swap_stage(s8[h], 61680, 3855, 4)]
        s2 == [h \in 1 .. 2 |-> swap_stage(s4[h], 52428, 13107, 2)]
    IN  [h \in 1 .. 2 |-> swap_stage(s2[h], 43690, 21845, 1)]

\* The bit i of the natural v
Bit(v, i) == Shr(v, i) % 2

\* (state & self._tap_mask).bit_count() & 1 == 0, _tap_mask = 0x81010100: the
\* bits 15, 8 and 0 of the high half, the bit 8 of the low half
taps_even(state) ==
    (Bit(state[1], 15) + Bit(state[1], 8) + Bit(state[1], 0) + Bit(state[2], 8)) % 2 = 0

\* one turn of get_bits' loop with state = state << 1, unmasked (a mutant)
cipher_step_unmasked(state) ==
    LET lo == IF taps_even(state) THEN BitOr(state[2], 1) ELSE state[2]
    IN  [bit |-> Bit(state[1], 15),
         state |-> <<state[1] * 2 + Shr(lo, 15), (lo * 2) % 65536>>]

\* One turn of the loop of get_bits: the bit 31 of the state is the output;
\* state |= 1 when the taps are even; state = (state & 0x7fffffff) << 1
cipher_step(state) ==
    LET lo == IF taps_even(state) THEN BitOr(state[2], 1) ELSE state[2]
    IN  [bit |-> Bit(state[1], 15),
         state |-> <<BitAnd(state[1], 32767) * 2 + Shr(lo, 15), (lo * 2) % 65536>>]

\* The loop of get_bits, count turns from the state: the bits of result, the
\* first one the most significant, and the state left
RECURSIVE get_bits_loop(_, _, _)
get_bits_loop(state, count, result) ==
    IF count = 0 THEN [result |-> result, state |-> state]
    ELSE LET s == cipher_step(state)
         IN  get_bits_loop(s.state, count - 1, Append(result, s.bit))

\* Loops of more than LoopRun turns are evaluated as their first half of the
\* turns, then the others.
LoopRun == 16

\* _HandshakeCipher.get_bits(count) with self._state = state
RECURSIVE get_bits(_, _)
get_bits(state, count) ==
    IF count <= LoopRun THEN get_bits_loop(state, count, <<>>)
    ELSE LET first == get_bits(state, count \div 2)
             rest == get_bits(first.state, count - count \div 2)
         IN  [result |-> first.result \o rest.result, state |-> rest.state]

\* The byte whose bits, the most significant first, are b[k + 1 .. k + 8]
BitsByte(b, k) ==
    128 * b[k + 1] + 64 * b[k + 2] + 32 * b[k + 3] + 16 * b[k + 4]
    + 8 * b[k + 5] + 4 * b[k + 6] + 2 * b[k + 7] + b[k + 8]

RECURSIVE BitXor(_, _)
BitXor(a, b) ==
    IF a = 0 THEN b
    ELSE IF b = 0 THEN a
    ELSE ((a + b) % 2) + 2 * BitXor(a \div 2, b \div 2)

\* _HandshakeCipher.xor(value) with self._state = state: the bytes of
\* get_bits(len(value) << 3) ^ int.from_bytes(value, 'big'), and the state left
xor(state, value) ==
    LET g == get_bits(state, Len(value) * 8)
    IN  [result |-> [i \in 1 .. Len(value) |->
                        BitXor(BitsByte(g.result, 8 * (i - 1)), value[i])],
         state |-> g.state]

(***************************************************************************)
(* The hash of the challenge in GCM._unlock. The integers of the code that *)
(* may pass 32 bits are triples: the bits from 32 up, the high half, the   *)
(* low half.                                                               *)
(***************************************************************************)
\* a + b, of two words: the sum with its carry
WordSum(a, b) ==
    LET lo == a[2] + b[2]
        hi == a[1] + b[1] + lo \div 65536
    IN  <<hi \div 65536, hi % 65536, lo % 65536>>

\* value & 0xffffffff
Mask32(value) == <<value[2], value[3]>>

WordXor(a, b) == <<BitXor(a[1], b[1]), BitXor(a[2], b[2])>>
WordAnd(a, b) == <<BitAnd(a[1], b[1]), BitAnd(a[2], b[2])>>
WordOr(a, b) == <<BitOr(a[1], b[1]), BitOr(a[2], b[2])>>

\* w >> n, 0 <= n <= 32
WordShr(w, n) ==
    IF n >= 16 THEN <<0, Shr(w[1], n - 16)>>
    ELSE <<Shr(w[1], n), Shr(w[2], n) + (w[1] % (2 ^ n)) * (2 ^ (16 - n))>>

\* (w << n) & 0xffffffff, 0 <= n <= 32
WordShlMasked(w, n) ==
    IF n >= 32 THEN <<0, 0>>
    ELSE IF n >= 16 THEN <<(w[2] * (2 ^ (n - 16))) % 65536, 0>>
    ELSE <<((w[1] * (2 ^ n)) % 65536) + Shr(w[2], 16 - n), (w[2] * (2 ^ n)) % 65536>>

\* rr32 with the whole shift used, as a shift of that many bits (a mutant)
rr32_unmasked_shift(value, shift) ==
    WordOr(WordShr(Mask32(value), IF shift > 32 THEN 32 ELSE shift),
           WordShlMasked(Mask32(value), IF shift > 32 THEN 0 ELSE 32 - shift))

\* rr32(value, shift): shift &= 0x1f;
\* ((value & 0xffffffff) >> shift) | (value << (32 - shift)) & 0xffffffff
rr32(value, shift) ==
    LET sh == BitAnd(shift, 31)
    IN  WordOr(WordShr(Mask32(value), sh), WordShlMasked(Mask32(value), 32 - sh))

\* iter_nibble: the pairs (byte >> 4, byte & 0xf) of the bytes of value
iter_nibble(value) == [i \in 1 .. Len(value) |-> <<Shr(value[i], 4), BitAnd(value[i], 15)>>]

RECURSIVE SumOf(_)
SumOf(bytes) == IF bytes = <<>> THEN 0 ELSE bytes[1] + SumOf(Tail(bytes))

\* The constants of the hash: 0x170a7489, 0x05efe0aa, 0xdaf4b157, 0x6bbec3b6
RunningSumStart == <<5898, 29833>>
ChallengeHashStart == <<1519, 57514>>
Key0Start == <<56052, 45399>>
Key1Start == <<27582, 50102>>

\* One turn of the loop over swap_offset: h holds running_sum, challenge_hash,
\* key0, key1, nibble0, nibble1; the next pair of nibbles is (nibble2, nibble3)
hash_turn(h, swap_offset, nibble2, nibble3) ==
    LET term == BitXor(BitXor(BitOr(IF BitAnd(nibble3, 8) # 0 THEN 65280 ELSE 0,
                                    BitOr(nibble3 * 16, h.nibble1)),
                              h.nibble0 * 256),
                       nibble2 * 4096)
        running_sum == Mask32(WordSum(h.running_sum, <<term \div 65536, term % 65536>>))
        challenge_hash ==
            Mask32(WordSum(h.challenge_hash,
                           rr32(WordSum(WordXor(h.key0, h.key1), running_sum),
                                swap_offset)))
        key0 == WordOr(WordOr(WordAnd(WordXor(running_sum, <<65535, 65535>>),
                                      challenge_hash),
                              WordShr(h.key1, 16)),
                       WordAnd(WordAnd(running_sum, h.key1), <<65535, 0>>))
        key1 == WordXor(WordXor(running_sum, challenge_hash), key0)
    IN  [running_sum |-> running_sum, challenge_hash |-> challenge_hash,
         key0 |-> key0, key1 |-> key1, nibble0 |-> nibble2, nibble1 |-> nibble3]

\* for swap_offset in range(first, last): the turns from swap_offset on, the
\* pair k of the nibbles the next one
RECURSIVE hash_loop(_, _, _, _, _)
hash_loop(h, swap_offset, last, nibbles, k) ==
    IF swap_offset >= last THEN h
    ELSE hash_loop(hash_turn(h, swap_offset, nibbles[k][1], nibbles[k][2]),
                   swap_offset + 1, last, nibbles, k + 1)

\* int.to_bytes(4, 'big') of a word
WordBytes(w) == <<Shr(w[1], 8), w[1] % 256, Shr(w[2], 8), w[2] % 256>>

\* response = challenge_hash.to_bytes(4, 'big'), of the 8 bytes of the challenge
challenge_response(challenge) ==
    LET challenge_sum == SumOf(challenge)
        nibbles == iter_nibble(challenge)
        start == [running_sum |-> Mask32(WordSum(RunningSumStart, <<0, challenge_sum>>)),
                  challenge_hash |-> ChallengeHashStart,
                  key0 |-> Key0Start, key1 |-> Key1Start,
                  nibble0 |-> nibbles[1][1], nibble1 |-> nibbles[1][2]]
    IN  WordBytes(hash_loop(start, challenge_sum + 9, challenge_sum + 16,
                            nibbles, 2).challenge_hash)

(***************************************************************************)
(* GCM.__init__, in steps of one bus transaction each.                     *)
(***************************************************************************)
\* array_addr = 0x7fec8000, the seed of the cipher of the handshake
UnlockSeed == <<32748, 32768>>

\* The address bytes of the handshake's first read
unlock_array_bytes == addr_to_bytes(BitAnd(Shr(2146205696, 12), 524287))

\* exi_id = int.from_bytes(self.get_exi_id(...)) and the geometry read from it
init_exi_id ==
    /\ step = "init_exi"
    /\ bus' = Append(bus, xfer_exi_id)
    /\ IF exi_is_zero(exi)
       THEN /\ err' = ValueError("Nothing plugged ?")
            /\ step' = "raised"
            /\ self' = self
       ELSE IF exi_is_reserved(exi)
       THEN /\ err' = ValueError("Not a memory card ?")
            /\ step' = "raised"
            /\ self' = self
       ELSE IF exi_sector_fails(exi)
       THEN /\ err' = IndexError
            /\ step' = "raised"
            /\ self' = [self EXCEPT !.card_size = exi_card_size(exi),
                                    !.turnaround_bytes = exi_turnaround(exi)]
       ELSE /\ err' = NoErr
            /\ step' = "init_status"
            /\ self' = [self EXCEPT !.card_size = exi_card_size(exi),
                                    !.turnaround_bytes = exi_turnaround(exi),
                                    !.sector_size = exi_sector_size(exi)]
    /\ UNCHANGED <<cardvars, call, last_status, ops, mainvars, fvars>>

\* status = self.get_status(), first and after wake_up and set_interrupt
init_get_status ==
    /\ step \in {"init_status", "init_status_woken", "init_status_int"}
    /\ bus' = Append(bus, xfer_get_status_of(status))
    /\ last_status' = status
    /\ step' = IF step = "init_status" /\ Has(status, SLEEP) THEN "init_wake"
               ELSE IF step = "init_status_int" THEN "init_unlock"
               ELSE "init_int"
    /\ self' = IF step = "init_status_int"
               THEN [self EXCEPT !.has_interrupt = Has(status, INT_EN)]
               ELSE self
    /\ UNCHANGED <<cardvars, call, err, ops, mainvars, fvars>>

\* self.wake_up()
init_wake_up ==
    /\ step = "init_wake"
    /\ bus' = Append(bus, xfer_wake_up)
    /\ status' = Without(status, SLEEP)
    /\ step' = "init_status_woken"
    /\ UNCHANGED <<exi, gpio, cardInt, flash0, mem, cardop, events>>
    /\ UNCHANGED <<self, call, err, last_status, ops, mainvars, fvars>>

\* a configuration that takes INT_EN for an interrupt without a line (a mutant)
interrupt_config_trusting(line, s) ==
    [set |-> IF line = Has(s, INT_EN) THEN <<>> ELSE <<line>>,
     has_interrupt |-> Has(s, INT_EN)]

\* What __init__ does of the interrupt on the status s, with or without a
\* signal line: the set_interrupt it sends (none, or one with this enable)
\* and the _has_interrupt it assigns before any re-read
interrupt_config(line, s) ==
    IF ~line
    THEN [set |-> IF Has(s, INT_EN) THEN <<FALSE>> ELSE <<>>,
          has_interrupt |-> FALSE]
    ELSE [set |-> IF ~Has(s, INT_EN) THEN <<TRUE>> ELSE <<>>,
          has_interrupt |-> Has(s, INT_EN)]

\* the configuration of the interrupt
init_interrupt ==
    /\ step = "init_int"
    /\ LET c == interrupt_config(gpio, last_status)
       IN  /\ self' = [self EXCEPT !.has_interrupt = c.has_interrupt]
           /\ IF c.set = <<>>
              THEN /\ UNCHANGED <<bus, status>>
                   /\ step' = "init_unlock"
              ELSE /\ bus' = Append(bus, xfer_set_interrupt(c.set[1]))
                   /\ status' = IF ~c.set[1] THEN Without(status, INT_EN)
                                ELSE IF cardInt THEN With(status, INT_EN)
                                ELSE status
                   /\ step' = IF c.set[1] THEN "init_status_int" ELSE "init_unlock"
    /\ UNCHANGED <<exi, gpio, cardInt, flash0, mem, cardop, events>>
    /\ UNCHANGED <<call, err, last_status, ops, mainvars, fvars>>

Zeros(n) == [i \in 1 .. n |-> 0]

\* _unlock_read(address_bytes): the bytes that follow 0x52, before the cipher
unlock_read_payload(address_bytes, turnaround) ==
    address_bytes \o <<0, 0>> \o Zeros(turnaround) \o <<0, 0, 0, 0>>

\* _unlock_read's transfer: 0x52 and the enciphered bytes, in one segment
xfer_unlock_read_of(enciphered) == Xfer("unlock_read", <<82>> \o enciphered, 0, NoData, 0)

\* a handshake that takes no bit between its transfers (a mutant)
cipher_advance_none(state) == state

\* handshake_cipher.get_bits(1), its result dropped
cipher_advance(state) == get_bits(state, 1).state

\* The first read of _unlock, of 4 bytes at the address bytes of array_addr:
\* the cipher made from array_addr deciphers the bytes received (dropped) and
\* gives one bit. The state of the cipher after it.
unlock_first_read(rx4) == cipher_advance(xor(cipher_init(UnlockSeed), rx4).state)

\* The second read, of 24 bytes at address bytes 00 00 00 00: the cipher
\* deciphers the bytes received and gives one bit
unlock_second_read(cipher, rx24) ==
    LET data == xor(cipher, rx24)
    IN  [data |-> data.result, cipher |-> cipher_advance(data.state)]

\* _unlock taking the bytes that follow the card id for the id (a mutant)
unlock_card_id_shifted(data) == SubSeq(data, 13, 24)

\* card_id = data[:12]
unlock_card_id(data) == SubSeq(data, 1, 12)

\* challenge = data[12:20]
unlock_challenge(data) == SubSeq(data, 13, 20)

\* The two unlock reads: _unlock_read(response[:2]), one bit of the cipher,
\* _unlock_read(response[2:])
unlock_reads(cipher, response, turnaround) ==
    LET first == xor(cipher, unlock_read_payload(SubSeq(response, 1, 2), turnaround))
        second == xor(cipher_advance(first.state),
                      unlock_read_payload(SubSeq(response, 3, 4), turnaround))
    IN  <<xfer_unlock_read_of(first.result), xfer_unlock_read_of(second.result)>>

\* The five transactions of GCM._unlock, the card answering rx4, rx24 and the
\* status
unlock_transfers(rx4, rx24, reads, unlocked_status) ==
    << [xfer_raw_read_page(unlock_array_bytes, 4) EXCEPT !.reply = rx4],
       [xfer_raw_read_page(<<0, 0, 0, 0>>, 24) EXCEPT !.reply = rx24] >>
    \o reads \o <<xfer_get_status_of(unlocked_status)>>

\* The challenges of the card
CardChallenges ==
    { <<1, 35, 69, 103, 137, 171, 205, 239>>, <<255, 255, 255, 255, 255, 255, 255, 255>> }

\* The card's side of the handshake: its cipher, made from the address of the
\* first read, has given 32 bits and one more when the card sends its id, the
\* challenge and 4 more bytes enciphered.
CardSends4 == <<165, 90, 60, 195>>
CardCipher == CHOOSE state \in { get_bits(get_bits(cipher_init(UnlockSeed), 32).state, 1).state } : TRUE
CardSends24(challenge) == xor(CardCipher, CardSerial \o challenge \o <<0, 0, 0, 0>>).result

UnlockFailed == ValueError("Unlock failed, power-cycle card before trying again")

\* _unlock returning the card id whatever the status read (a mutant)
unlock_result_unchecked(s, card_id) == [raise |-> NoErr, card_id |-> card_id]

\* The end of _unlock: on the status s read after the response it raises or
\* returns the card id
unlock_result(s, card_id) ==
    IF ~Has(s, UNLOCKED) THEN [raise |-> UnlockFailed, card_id |-> NoFlashId]
    ELSE [raise |-> NoErr, card_id |-> card_id]

\* a construction that runs the handshake on every card (a mutant)
needs_unlock_always(s) == TRUE

\* if status & CardStatus.UNLOCKED == 0
needs_unlock(s) == ~Has(s, UNLOCKED)

\* if status & UNLOCKED == 0: self._flash_id = self._unlock(). The card sends
\* its id and a challenge, and takes the response (unlocked) or not.
init_unlock ==
    /\ step = "init_unlock"
    /\ IF ~needs_unlock(last_status)
       THEN /\ step' = "ret"
            /\ UNCHANGED <<bus, status, self, err>>
       ELSE \E unlocked \in BOOLEAN, rx24 \in { CardSends24(c) : c \in CardChallenges } :
            \E cipher \in { unlock_first_read(CardSends4) } :
            \E read \in { unlock_second_read(cipher, rx24) } :
            \E response \in { challenge_response(unlock_challenge(read.data)) } :
            \E reads \in { unlock_reads(read.cipher, response, self.turnaround_bytes) } :
                 /\ status' = IF unlocked THEN With(status, UNLOCKED) ELSE status
                 /\ bus' = bus \o unlock_transfers(CardSends4, rx24, reads, status')
                 /\ LET r == unlock_result(status', unlock_card_id(read.data))
                    IN  /\ err' = r.raise
                        /\ self' = IF r.raise = NoErr
                                   THEN [self EXCEPT !.flash_id = r.card_id]
                                   ELSE self
                        /\ step' = IF r.raise = NoErr THEN "ret" ELSE "raised"
    /\ UNCHANGED <<exi, gpio, cardInt, flash0, mem, cardop, events>>
    /\ UNCHANGED <<call, last_status, ops, mainvars, fvars>>

(***************************************************************************)
(* main(): the construction of the session, the prints, the differential   *)
(* write, the sleep.                                                       *)
(***************************************************************************)
\* card = GCM(spi=spi, gpio_int=gpio_int)
main_construct ==
    /\ pc = "start"
    /\ pc' = "constructing"
    /\ call' = CallOf("__init__", 0, 0, NoData)
    /\ step' = "init_exi"
    /\ UNCHANGED <<cardvars, self, err, last_status, histvars, fvars>>
    /\ UNCHANGED <<output, ncalls, mode, original_content, new_content, pos, slice_pos, diff_count>>

\* The actions of the command line: --read, --write OLD NEW, or neither.
Modes == {"read", "write", ""}

\* sizeof(GCMHeader)
HeaderSize == 12 + 8 + 4 + 4 + 4 + 2 + 2 + 2 + 470 + 2 + 2

\* Cards are read whole up to this size.
ReadModeLimit == 2 ^ 19

\* the prints of main(): get_id, get_status, get_header; pos = 0
main_info ==
    /\ pc = "constructing"
    /\ step = "ret"
    /\ call' = CallOf("read_page", 0, HeaderSize, NoData)
    /\ bus' = << xfer_get_id, xfer_get_status_of(status),
                 xfer_raw_read_page(addr_to_bytes(0), HeaderSize) >>
    /\ ops' = Append(ops, LogOp(CallOf("read_page", 0, HeaderSize, NoData)))
    /\ pos' = 0
    /\ \E m \in Modes :
         /\ m = "read" => self.card_size <= ReadModeLimit
         /\ mode' = m
         /\ pc' = IF m = "write" THEN "open" ELSE IF m = "read" THEN "read" ELSE "sleep"
    /\ UNCHANGED <<cardvars, self, step, err, last_status, fvars>>
    /\ UNCHANGED <<output, ncalls, original_content, new_content, slice_pos, diff_count>>

\* New images differ from the all-zero image in at most MaxPatches pages.
MaxPatches == 2

\* The first address the 4 address bytes cannot carry
AddressSpace == 2 ^ 24

\* The pages where the images of a card of the given geometry may differ: the
\* first page, a page of sector 3, and on a card above 16 MiB its page at 2^24.
ProbePages(size, sector_size) ==
    {0, 3 * (sector_size \div WRITE_SZ) + 1}
        \cup (IF size > AddressSpace THEN {AddressSpace \div WRITE_SZ} ELSE {})

ProbeByte(p) == IF p = 0 THEN 15 ELSE 240

Patched(size, pages) == [len |-> size, fill |-> 0, patch |-> [p \in pages |-> ProbeByte(p)]]

\* The content of the card's flash when the run starts
FlashImages(size, sector_size) == { ZeroImage(size), Patched(size, {0}) }

\* The files given as OLD: the content of the card, or a file one byte short,
\* or one longer (of which total_size + 1 bytes are read)
OldImages ==
    { flash0, [flash0 EXCEPT !.len = flash0.len - 1], [flash0 EXCEPT !.len = flash0.len + 1] }

\* The files given as NEW
NewImages ==
    { Patched(self.card_size, pages) :
        pages \in { P \in SUBSET ProbePages(self.card_size, self.sector_size) :
                      Cardinality(P) <= MaxPatches } }
    \cup { ZeroImage(self.card_size - 1), ZeroImage(self.card_size + 1) }

\* the check of the sizes, of the new image alone (a mutant)
image_size_mismatch_new(old, new, total_size) == new.len # total_size

\* len(original_content) != len(new_content) or len(new_content) != total_size
image_size_mismatch(old, new, total_size) ==
    old.len # new.len \/ new.len # total_size

\* original_content[pos:pos + sector_size] != new_sector, compared without the
\* new image (a mutant)
sector_differs_from_zero(old, new, at, sector_size) ==
    Slice(old, at, sector_size) # Slice(ZeroImage(new.len), at, sector_size)

\* original_content[pos:pos + sector_size] != new_sector
sector_differs(old, new, at, sector_size) ==
    Slice(old, at, sector_size) # Slice(new, at, sector_size)

\* the files are read and their sizes checked
main_open ==
    /\ pc = "open"
    /\ \E old \in OldImages, new \in NewImages :
         /\ old.len = self.card_size \/ new.patch = NoPatch
         /\ original_content' = old
         /\ new_content' = new
         /\ IF image_size_mismatch(old, new, self.card_size)
            THEN /\ err' = ValueError("image size mismatch")
                 /\ step' = "raised"
                 /\ pc' = pc
            ELSE /\ UNCHANGED <<err, step>>
                 /\ pc' = "diff"
    /\ diff_count' = 0
    /\ UNCHANGED <<cardvars, self, call, last_status, histvars, fvars>>
    /\ UNCHANGED <<output, ncalls, mode, pos, slice_pos>>

\* num_blocks and writes_per_block
num_blocks == self.card_size \div self.sector_size
writes_per_block == self.sector_size \div WRITE_SZ

\* the data of the write of a sector's slice, taken at the sector's start (a mutant)
write_data_first(new, at, slice_at) ==
    [len |-> WRITE_SZ, fill |-> At(new, at \div WRITE_SZ)]

\* new_sector[slice_pos:slice_pos + WRITE_SZ]
write_data(new, at, slice_at) ==
    [len |-> WRITE_SZ, fill |-> At(new, (at + slice_at) \div WRITE_SZ)]

\* a loop that goes on to its next call when a call has raised (a mutant)
diff_loop_runs_on(st) == st \in {"ret", "raised"}

\* The loops of the differential write go on when the call made has returned:
\* nothing catches what erase_sector or write_page raises
diff_loop_runs(st) == st = "ret"

\* one turn of the loop over the sectors: a sector that differs is erased
main_diff_sector ==
    /\ pc = "diff"
    /\ diff_loop_runs(step)
    /\ pos \div self.sector_size < num_blocks
    /\ IF sector_differs(original_content, new_content, pos, self.sector_size)
       THEN /\ diff_count' = diff_count + 1
            /\ Enter(CallOf("erase_sector", pos, 0, NoData))
            /\ pc' = "erase"
            /\ pos' = pos
       ELSE /\ pos' = pos + self.sector_size
            /\ UNCHANGED <<diff_count, call, bus, err, step, pc>>
    /\ UNCHANGED <<cardvars, self, last_status, ops, fvars>>
    /\ UNCHANGED <<output, ncalls, mode, original_content, new_content, slice_pos>>

\* one turn of the loop over the slices of an erased sector, and its end
main_diff_write ==
    /\ pc \in {"erase", "write"}
    /\ diff_loop_runs(step)
    /\ LET at == IF pc = "erase" THEN 0 ELSE slice_pos + WRITE_SZ
       IN  /\ slice_pos' = at
           /\ IF at \div WRITE_SZ < writes_per_block
              THEN /\ Enter(CallOf("write_page", pos + at, 0, write_data(new_content, pos, at)))
                   /\ pc' = "write"
                   /\ pos' = pos
              ELSE /\ pos' = pos + self.sector_size
                   /\ pc' = "diff"
                   /\ UNCHANGED <<call, bus, err, step>>
    /\ UNCHANGED <<cardvars, self, last_status, ops, fvars>>
    /\ UNCHANGED <<output, ncalls, mode, original_content, new_content, diff_count>>

\* min(READ_SZ, total_size - pos), with half a block as the most (a mutant)
read_amount_half(total_size, at) ==
    IF total_size - at < READ_SZ \div 2 THEN total_size - at ELSE READ_SZ \div 2

\* read_amount = min(READ_SZ, total_size - pos)
read_amount(total_size, at) ==
    IF total_size - at < READ_SZ THEN total_size - at ELSE READ_SZ

\* num_blocks of the read loop; the loop has made pos / READ_SZ turns, its
\* reads being of READ_SZ bytes each
num_read_blocks == self.card_size \div READ_SZ

\* The bytes the card returns for the read of call c, a page of WRITE_SZ after
\* the other, appended to the image img
ReadInto(img, c) ==
    LET first == img.len \div WRITE_SZ
        from == CardAddress(addr_to_bytes(c.address)) \div WRITE_SZ
        pages == { k \in 0 .. ((c.length \div WRITE_SZ) - 1) : CardPage(from + k) # img.fill }
    IN  [len |-> img.len + c.length,
         fill |-> img.fill,
         patch |-> [p \in DOMAIN img.patch \cup { first + k : k \in pages } |->
                      IF p \in DOMAIN img.patch THEN img.patch[p]
                      ELSE CardPage(from + (p - first))]]

\* one turn of the read loop: card.read_page(address=pos, length=read_amount)
main_read_page ==
    /\ pc = "read"
    /\ step = "ret"
    /\ pos \div READ_SZ < num_read_blocks
    /\ Enter(CallOf("read_page", pos, read_amount(self.card_size, pos), NoData))
    /\ pc' = "reading"
    /\ UNCHANGED <<cardvars, self, last_status, ops, fvars>>
    /\ UNCHANGED <<output, ncalls, mode, original_content, new_content, pos, slice_pos, diff_count>>

\* output.write(...) of what read_page returned; pos += read_amount
main_read_write ==
    /\ pc = "reading"
    /\ step = "ret"
    /\ output' = ReadInto(output, call)
    /\ pos' = pos + call.length
    /\ pc' = "read"
    /\ UNCHANGED <<cardvars, gcmvars, histvars, fvars>>
    /\ UNCHANGED <<ncalls, mode, original_content, new_content, slice_pos, diff_count>>

\* card.sleep(), once the chosen action is over
main_sleep ==
    /\ \/ pc = "sleep"
       \/ pc = "read" /\ step = "ret" /\ pos \div READ_SZ >= num_read_blocks
       \/ pc = "diff" /\ step = "ret" /\ pos \div self.sector_size >= num_blocks
    /\ Enter(CallOf("sleep", 0, 0, NoData))
    /\ pc' = "sleeping"
    /\ UNCHANGED <<cardvars, self, last_status, ops, fvars>>
    /\ UNCHANGED <<output, ncalls, mode, original_content, new_content, pos, slice_pos, diff_count>>

\* main() returns
main_exit ==
    /\ pc = "sleeping"
    /\ step = "ret"
    /\ pc' = "done"
    /\ UNCHANGED <<cardvars, gcmvars, histvars, fvars>>
    /\ UNCHANGED <<output, ncalls, mode, original_content, new_content, pos, slice_pos, diff_count>>

(***************************************************************************)
(* The runs of the tool.                                                   *)
(***************************************************************************)
ExiNothing == <<0, 0, 0, 0>>
ExiFloating == <<255, 255, 255, 255>>
Exi85 == <<0, 0, 0, 133>>
ExiReserved14 == <<0, 0, 64, 4>>
ExiSector6 == <<0, 0, 48, 4>>
Exi512K == <<0, 0, 0, 4>>
Exi16M5 == <<0, 0, 0, 132>>
Exi512KLatency8 == <<0, 0, 1, 4>>

ExiProbes ==
    {ExiNothing, ExiFloating, Exi85, ExiReserved14, ExiSector6, Exi512K, Exi16M5,
     Exi512KLatency8}

\* The status of the card when the run starts
StartStatuses(int) ==
    { READY + s + i + u : s \in {0, SLEEP}, u \in {0, UNLOCKED},
                          i \in (IF int THEN {0, INT_EN} ELSE {0}) }

Init ==
    /\ PureIdle
    /\ MainIdle
    /\ exi \in ExiProbes
    /\ gpio \in BOOLEAN
    /\ cardInt \in (IF gpio THEN BOOLEAN ELSE {TRUE})
    /\ status \in StartStatuses(cardInt)
    /\ flash0 \in (IF exi_is_zero(exi) \/ exi_is_reserved(exi) \/ exi_sector_fails(exi)
                   THEN {NoImage}
                   ELSE FlashImages(exi_card_size(exi), exi_sector_size(exi)))
    \* the 16.5 MiB card is run polled, found unlocked and awake, its flash all zero
    /\ exi = Exi16M5 => (~gpio /\ status = READY + UNLOCKED /\ flash0.patch = NoPatch)
    \* the card of 8 turnaround bytes is run polled, found locked and awake
    /\ exi = Exi512KLatency8 => (~gpio /\ status = READY /\ flash0.patch = NoPatch)
    /\ mem = NoPatch
    /\ cardop = NoCardOp
    /\ events = 0
    /\ self = NoSelf
    /\ call = NoCall
    /\ step = ""
    /\ err = NoErr
    /\ last_status = 0
    /\ pc = "start"
    /\ bus = <<>>
    /\ ops = <<>>

Next ==
    \/ main_construct
    \/ init_exi_id
    \/ init_get_status
    \/ init_wake_up
    \/ init_interrupt
    \/ init_unlock
    \/ main_info
    \/ main_open
    \/ main_read_page
    \/ main_read_write
    \/ read_page_transfer
    \/ main_diff_sector
    \/ main_diff_write
    \/ main_sleep
    \/ main_exit
    \/ clear_status
    \/ send_command
    \/ sleep
    \/ waitForIdle_event
    \/ waitForIdle_event_timeout
    \/ waitForIdle_poll
    \/ check_status
    \/ CardDone

Spec == Init /\ [][Next]_vars

(***************************************************************************)
(* Runs of the address codec: an address is encoded by one of the two      *)
(* encoders of the repository and the bytes are decoded by one of its two  *)
(* decoders.                                                                *)
(***************************************************************************)
\* The claimed domain of the codec is [0, 2^AddrBits).
AddrBits == 26

\* Addresses that exercise every field of the encoding and every bit above it.
ProbeAddresses ==
    { b3 + b2 * 128 + b1 * 512 + hi * (2 ^ 17) :
        b3 \in {0, 1, 127}, b2 \in {0, 1, 3}, b1 \in {0, 1, 255},
        hi \in {0, 127, 2 ^ (AddrBits - 17) - 1} \cup { 2 ^ k : k \in 0 .. (AddrBits - 18) } }

AddrInit ==
    /\ DriverIdle
    /\ fcall = "address"
    /\ fin \in ProbeAddresses
    /\ fmid = <<>>
    /\ fout = None

AddrEncode ==
    /\ fcall = "address"
    /\ fcall' = "encoded"
    /\ fmid' = addr_to_bytes(fin)
    /\ UNCHANGED <<fin, fout, cardvars, gcmvars, mainvars, histvars>>

AddrEncodeRaspi ==
    /\ fcall = "address"
    /\ fcall' = "encoded_raspi"
    /\ fmid' = raspi_addr_to_bytes(fin)
    /\ UNCHANGED <<fin, fout, cardvars, gcmvars, mainvars, histvars>>

AddrDecode ==
    /\ fcall \in {"encoded", "encoded_raspi"}
    /\ fcall' = IF fcall = "encoded" THEN "decoded" ELSE "decoded_raspi"
    /\ fout' = addr_from_bytes(fmid)
    /\ UNCHANGED <<fin, fmid, cardvars, gcmvars, mainvars, histvars>>

AddrUnpack ==
    /\ fcall \in {"encoded", "encoded_raspi"}
    /\ fcall' = IF fcall = "encoded" THEN "unpacked" ELSE "unpacked_raspi"
    /\ fout' = unpack_addr(fmid)
    /\ UNCHANGED <<fin, fmid, cardvars, gcmvars, mainvars, histvars>>

(***************************************************************************)
(* Runs of the checksum over byte regions.                                 *)
(***************************************************************************)
\* Regions of every length up to 2 * MaxWords bytes are enumerated.
MaxWords == 2

ProbeBytes == {0, 1, 127, 128, 255}

\* The lengths of the header's checksummed region and of the whole header.
LongLengths == {508, 512}

ChecksumInputs ==
    UNION { [1 .. n -> ProbeBytes] : n \in 0 .. (2 * MaxWords) }
        \cup { [i \in 1 .. n |-> b] : n \in LongLengths, b \in ProbeBytes }
        \cup { [i \in 1 .. n |-> IF i = n THEN b ELSE 255] :
                 n \in LongLengths, b \in ProbeBytes }

ChecksumInit ==
    /\ DriverIdle
    /\ fcall = "data"
    /\ fin \in ChecksumInputs
    /\ fmid = <<>>
    /\ fout = None

ChecksumCall ==
    /\ fcall = "data"
    /\ fcall' = "checksummed"
    /\ fout' = checksum(fin)
    /\ UNCHANGED <<fin, fmid, cardvars, gcmvars, mainvars, histvars>>

AddrNext == AddrEncode \/ AddrEncodeRaspi \/ AddrDecode \/ AddrUnpack

SpecAddr == AddrInit /\ [][AddrNext]_vars

ChecksumNext == ChecksumCall

SpecChecksum == ChecksumInit /\ [][ChecksumNext]_vars

(***************************************************************************)
(* Runs of the cipher's construction over seeds.                           *)
(***************************************************************************)
SeedHalves == {0, 4660, 32748, 65535} \cup { 2 ^ k : k \in 0 .. 15 }

CipherInit ==
    /\ DriverIdle
    /\ fcall = "seed"
    /\ fin \in SeedHalves \X SeedHalves
    /\ fmid = <<>>
    /\ fout = None

\* _HandshakeCipher(seed)
CipherSeed ==
    /\ fcall = "seed"
    /\ fcall' = "seeded"
    /\ fmid' = cipher_init(fin)
    /\ UNCHANGED <<fin, fout, cardvars, gcmvars, mainvars, histvars>>

\* _HandshakeCipher(state of the cipher made from the seed)
CipherSeedAgain ==
    /\ fcall = "seeded"
    /\ fcall' = "reseeded"
    /\ fout' = cipher_init(fmid)
    /\ UNCHANGED <<fin, fmid, cardvars, gcmvars, mainvars, histvars>>

CipherNext == CipherSeed \/ CipherSeedAgain

SpecCipher == CipherInit /\ [][CipherNext]_vars

(***************************************************************************)
(* Runs of get_bits: m bits then n bits, and m + n bits at once, from the  *)
(* same state.                                                             *)
(***************************************************************************)
MaxBits == 6

\* The numbers of bits requested: short ones, and one that makes m + n a long run
BitCounts == (0 .. MaxBits) \cup {40}

CipherStates ==
    { cipher_init(UnlockSeed), <<0, 0>>, <<65535, 65535>>, <<32768, 0>>, <<0, 1>>,
      <<4660, 22136>>, <<33025, 256>>, <<1, 256>>, <<32767, 65535>> }

BitsInit ==
    /\ DriverIdle
    /\ fcall = "bits"
    /\ fin \in [state : CipherStates, m : BitCounts, n : BitCounts]
    /\ fmid = <<>>
    /\ fout = None

\* get_bits(m)
BitsFirst ==
    /\ fcall = "bits"
    /\ fcall' = "first"
    /\ fmid' = <<get_bits(fin.state, fin.m)>>
    /\ UNCHANGED <<fin, fout, cardvars, gcmvars, mainvars, histvars>>

\* get_bits(n), on the state that get_bits(m) left
BitsSecond ==
    /\ fcall = "first"
    /\ fcall' = "second"
    /\ fmid' = Append(fmid, get_bits(fmid[1].state, fin.n))
    /\ UNCHANGED <<fin, fout, cardvars, gcmvars, mainvars, histvars>>

\* get_bits(m + n), on the state the run started with
BitsWhole ==
    /\ fcall = "second"
    /\ fcall' = "whole"
    /\ fout' = get_bits(fin.state, fin.m + fin.n)
    /\ UNCHANGED <<fin, fmid, cardvars, gcmvars, mainvars, histvars>>

BitsNext == BitsFirst \/ BitsSecond \/ BitsWhole

SpecBits == BitsInit /\ [][BitsNext]_vars

(***************************************************************************)
(* Runs of the hash over challenges.                                       *)
(***************************************************************************)
\* The bytes the challenges are made of
ChallengeBytes == {0, 127, 248}

\* Challenges read from cards
ChallengeProbes ==
    { <<1, 35, 69, 103, 137, 171, 205, 239>>, <<255, 255, 255, 255, 255, 255, 255, 255>>,
      <<222, 173, 190, 239, 202, 254, 186, 190>>, <<16, 32, 48, 64, 80, 96, 112, 128>> }

HashInit ==
    /\ DriverIdle
    /\ fcall = "challenge"
    /\ fin \in [1 .. 8 -> ChallengeBytes] \cup ChallengeProbes
    /\ fmid = <<>>
    /\ fout = None

\* the response computed from the challenge
HashCall ==
    /\ fcall = "challenge"
    /\ fcall' = "response"
    /\ fout' = challenge_response(fin)
    /\ UNCHANGED <<fin, fmid, cardvars, gcmvars, mainvars, histvars>>

HashNext == HashCall

SpecHash == HashInit /\ [][HashNext]_vars

(***************************************************************************)
(* Runs of the construction over the identification words: every word with *)
(* no bit outside the three fields, answered by a card found awake,        *)
(* unlocked and without a signal line.                                     *)
(***************************************************************************)
\* The words with bits 2 to 13 only: the size in bits 2 to 7, the latency
\* index in bits 8 to 10, the sector size index in bits 11 to 13
FieldIds == { <<0, 0, h, 4 * n>> : h \in 0 .. 63, n \in 0 .. 63 }

IdsInit ==
    /\ PureIdle
    /\ MainIdle
    /\ exi \in FieldIds \cup {ExiFloating, Exi85, ExiReserved14}
    /\ gpio = FALSE
    /\ cardInt = TRUE
    /\ status = READY + UNLOCKED
    /\ flash0 = NoImage
    /\ mem = NoPatch
    /\ cardop = NoCardOp
    /\ events = 0
    /\ self = NoSelf
    /\ call = NoCall
    /\ step = ""
    /\ err = NoErr
    /\ last_status = 0
    /\ pc = "start"
    /\ bus = <<>>
    /\ ops = <<>>

IdsNext ==
    \/ main_construct
    \/ init_exi_id
    \/ init_get_status
    \/ init_interrupt
    \/ init_unlock

SpecIds == IdsInit /\ [][IdsNext]_vars

(***************************************************************************)
(* Runs of the address encoder over pairs of addresses of a card: two      *)
(* distinct addresses, multiples of 0x80, below the size that an           *)
(* identification word gives.                                              *)
(***************************************************************************)
\* Addresses with every field of the encoding and the bits above it
AlignedProbes ==
    { b2 * 128 + b1 * 512 + hi * (2 ^ 17) :
        b2 \in {0, 3}, b1 \in {0, 255}, hi \in {0, 1, 127, 128, 129, 251} }

AliasInputs ==
    { [id |-> <<0, 0, 0, 4 * n>>, a |-> a, b |-> b] :
        n \in 1 .. 63, a \in AlignedProbes, b \in AlignedProbes }

AliasInit ==
    /\ DriverIdle
    /\ fcall = "pair"
    /\ fin \in AliasInputs
    /\ ~exi_is_zero(fin.id)
    /\ ~exi_is_reserved(fin.id)
    /\ fin.a < fin.b
    /\ fin.b < exi_card_size(fin.id)
    /\ fmid = <<>>
    /\ fout = None

\* self._addr_to_bytes of each address of the pair
AliasEncode ==
    /\ fcall = "pair"
    /\ fcall' = "encoded_pair"
    /\ fmid' = <<addr_to_bytes(fin.a), addr_to_bytes(fin.b)>>
    /\ UNCHANGED <<fin, fout, cardvars, gcmvars, mainvars, histvars>>

AliasNext == AliasEncode

SpecAlias == AliasInit /\ [][AliasNext]_vars

(***************************************************************************)
(* The serial of the header (GCMHeader). Python computes the key values on *)
(* unbounded integers: a number is the sequence of its bytes, the least    *)
(* significant first.                                                      *)
(***************************************************************************)
\* The k low bytes of the natural n
Limbs(n, k) == [i \in 1 .. k |-> Shr(n, 8 * (i - 1)) % 256]

\* 0x41c64e6d and 0x3039
KeyMultiplier == Limbs(1103515245, 4)
KeyIncrement == 12345

LimbTerm(x, m, i, j) == IF i \in DOMAIN x /\ j \in DOMAIN m THEN x[i] * m[j] ELSE 0

\* The columns of x * KeyMultiplier + KeyIncrement before the carries
key_columns(x) ==
    [k \in 1 .. (Len(x) + 4) |->
        LimbTerm(x, KeyMultiplier, k, 1) + LimbTerm(x, KeyMultiplier, k - 1, 2)
        + LimbTerm(x, KeyMultiplier, k - 2, 3) + LimbTerm(x, KeyMultiplier, k - 3, 4)
        + (IF k = 1 THEN KeyIncrement ELSE 0)]

RECURSIVE carried(_, _, _)
carried(columns, k, carry) ==
    IF k > Len(columns) THEN <<>>
    ELSE <<(columns[k] + carry) % 256>>
            \o carried(columns, k + 1, (columns[k] + carry) \div 256)

\* (key_value * 0x41c64e6d + 0x3039) >> 16
key_step(key_value) ==
    LET product == carried(key_columns(key_value), 1, 0)
    IN  SubSeq(product, 3, Len(product))

\* key_value & 0x7fff
key_mask(key_value) == <<key_value[1], key_value[2] % 128>>

\* GCMHeader._iterSerialKey: the first n values it yields, from self.time
RECURSIVE iterSerialKey(_, _)
iterSerialKey(key_value, n) ==
    IF n = 0 THEN <<>>
    ELSE LET yielded == key_step(key_value)
         IN  <<yielded>> \o iterSerialKey(key_mask(key_step(yielded)), n - 1)

\* The value a c_uint64 field keeps of an integer
c_uint64(value) == [i \in 1 .. 8 |-> IF i \in DOMAIN value THEN value[i] ELSE 0]

SerialLen == 12

\* zip(serial, self._iterSerialKey())
SerialKeys(header, serial) ==
    iterSerialKey(header.time, IF Len(serial) < SerialLen THEN Len(serial) ELSE SerialLen)

\* GCMHeader.getDecodedSerial
getDecodedSerial(header) ==
    LET keys == SerialKeys(header, header.serial)
    IN  [i \in DOMAIN keys |-> (header.serial[i] - keys[i][1]) % 256]

\* GCMHeader.setEncodedSerial taking its keys before it sets the time (a mutant)
setEncodedSerial_late_time(header, serial, time) ==
    IF Len(serial) # SerialLen THEN [raise |-> "ValueError", header |-> header]
    ELSE LET keys == SerialKeys(header, serial)
         IN  [raise |-> "",
              header |-> [header EXCEPT
                            !.time = c_uint64(time),
                            !.serial = [i \in DOMAIN keys |-> (serial[i] + keys[i][1]) % 256]]]

\* GCMHeader.setEncodedSerial
setEncodedSerial(header, serial, time) ==
    IF Len(serial) # SerialLen THEN [raise |-> "ValueError", header |-> header]
    ELSE LET timed == [header EXCEPT !.time = c_uint64(time)]
             keys == SerialKeys(timed, serial)
         IN  [raise |-> "",
              header |-> [timed EXCEPT
                            !.serial = [i \in DOMAIN keys |-> (serial[i] + keys[i][1]) % 256]]]

(***************************************************************************)
(* Runs of the header's serial codec.                                      *)
(***************************************************************************)
SerialProbes ==
    { CardSerial, [i \in 1 .. 12 |-> 0], [i \in 1 .. 12 |-> 255],
      [i \in 1 .. 12 |-> 21 * i], [i \in 1 .. 11 |-> i] }

\* Time values below 2^64, by their 8 bytes
TimeProbes ==
    { [i \in 1 .. 8 |-> IF i = k THEN b ELSE rest] :
        k \in 1 .. 8, b \in {1, 128, 255}, rest \in {0, 255} }

\* The header before the call: a blank serial, some time
HeaderProbes ==
    { [serial |-> [i \in 1 .. 12 |-> 0], time |-> t] :
        t \in { [i \in 1 .. 8 |-> 0], [i \in 1 .. 8 |-> 17 * i] } }

SerialInit ==
    /\ DriverIdle
    /\ fcall = "header"
    /\ fin \in [serial : SerialProbes, time : TimeProbes, header : HeaderProbes]
    /\ fmid = <<>>
    /\ fout = None

\* header.setEncodedSerial(serial, time)
SerialSet ==
    /\ fcall = "header"
    /\ LET r == setEncodedSerial(fin.header, fin.serial, fin.time)
       IN  /\ fcall' = IF r.raise = "" THEN "serial_set" ELSE "serial_raised"
           /\ fmid' = r.header
    /\ UNCHANGED <<fin, fout, cardvars, gcmvars, mainvars, histvars>>

\* header.getDecodedSerial()
SerialGet ==
    /\ fcall = "serial_set"
    /\ fcall' = "serial_decoded"
    /\ fout' = getDecodedSerial(fmid)
    /\ UNCHANGED <<fin, fmid, cardvars, gcmvars, mainvars, histvars>>

SerialNext == SerialSet \/ SerialGet

SpecSerial == SerialInit /\ [][SerialNext]_vars

(***************************************************************************)
(* The error kinds of the specification, as the exceptions of the code.    *)
(***************************************************************************)
InvalidArgumentMessages ==
    {"address % READ_SZ", "length", "len(data)", "address % WRITE_SZ",
     "address % self._sector_size"}
IsInvalidArgument(e) == e.type = "ValueError" /\ e.msg \in InvalidArgumentMessages
EraseFailed == ValueError("Erase failed")
ProgramFailed == ValueError("Program failed")

(***************************************************************************)
(* Claims on the methods of the session (SpecApi).                         *)
(***************************************************************************)
\* The method running has passed its wait-idle and not yet read the status.
AfterWaitIdle == step = "check"

\* C4: after a write_page, erase_sector or erase_card command, the next command
\* (the status read that follows the wait-idle) is sent only once the card has
\* left BUSY, unless the wait-idle timed out (the method then raises and never
\* reaches that read).
C4_NextCommandAfterBusy == AfterWaitIdle => ~Has(status, BUSY)

\* The same statement for sessions that poll: it holds there.
C4_PolledOnly == (AfterWaitIdle /\ ~self.has_interrupt) => ~Has(status, BUSY)

\* The method has read the status after its wait-idle and has returned or raised.
StatusChecked ==
    /\ call.name \in LongCommands
    /\ step \in {"ret", "raised"}
    /\ Len(bus) > 0
    /\ err # TimeoutError

\* C5: write_page fails with ProgramFailed exactly when the status read after
\* its wait-idle has PROGRAM_ERROR set, erase_sector and erase_card fail with
\* EraseFailed exactly when it has ERASE_ERROR set, and otherwise they succeed.
C5_ErrorOfStatus ==
    StatusChecked =>
        IF call.name = "write_page"
        THEN err = (IF Has(last_status, PROGRAMEERROR) THEN ProgramFailed ELSE NoErr)
        ELSE err = (IF Has(last_status, ERASEERROR) THEN EraseFailed ELSE NoErr)

\* What the code does: both failures raise the erase failure.
C5_AsCoded ==
    StatusChecked =>
        IF call.name = "write_page"
        THEN err = (IF Has(last_status, PROGRAMEERROR) THEN EraseFailed ELSE NoErr)
        ELSE err = (IF Has(last_status, ERASEERROR) THEN EraseFailed ELSE NoErr)

\* The arguments of the call c are not valid.
InvalidArguments(c) ==
    \/ c.name = "read_page" /\ (c.address % 512 # 0 \/ c.length > 512)
    \/ c.name = "write_page" /\ (c.data.len > 128 \/ c.address % 128 # 0)
    \/ c.name = "erase_sector" /\ c.address % self.sector_size # 0

\* C6: read_page, write_page and erase_sector called with a misaligned address
\* or too many bytes fail with InvalidArgument, and nothing is sent on the bus
\* (not even clear_status).
C6_InvalidArgument ==
    /\ InvalidArguments(call) =>
          /\ step = "raised"
          /\ IsInvalidArgument(err)
          /\ bus = <<>>
    /\ \A i \in DOMAIN ops :
          ~InvalidArguments(CallOf(ops[i].op, ops[i].address, ops[i].length, ops[i].data))

\* A second call, a write_page of 0x81 bytes, has failed.
C6_Witness ==
    /\ ncalls = 2
    /\ call.name = "write_page"
    /\ call.data.len > WRITE_SZ
    /\ step = "raised"
    /\ Len(ops) = 1


(***************************************************************************)
(* The differential write.                                                 *)
(***************************************************************************)
\* The erase and write calls of the run, in the order they were issued
IsDiffOp(o) == o.op \in {"erase_sector", "write_page"}
DiffOps == SelectSeq(ops, IsDiffOp)

InDiffWrite == mode = "write" /\ pc \in {"diff", "erase", "write", "sleeping", "done"}

PagesPerSector == self.sector_size \div WRITE_SZ

\* The sectors where the old and the new image differ
DirtyPages ==
    { p \in DOMAIN original_content.patch \cup DOMAIN new_content.patch :
        At(original_content, p) # At(new_content, p) }
DirtySectors == { p \div PagesPerSector : p \in DirtyPages }

\* The calls claimed for sector k: its erase, then its writes in ascending order
SectorOps(k) ==
    << [op |-> "erase_sector", address |-> k * self.sector_size, length |-> 0, data |-> NoData] >>
    \o [j \in 1 .. PagesPerSector |->
          [op |-> "write_page",
           address |-> k * self.sector_size + (j - 1) * WRITE_SZ,
           length |-> 0,
           data |-> [len |-> WRITE_SZ, fill |-> At(new_content, k * PagesPerSector + (j - 1))]]]

SetMin(S) == CHOOSE k \in S : \A m \in S : k <= m

RECURSIVE ExpectedOps(_)
ExpectedOps(S) ==
    IF S = {} THEN <<>>
    ELSE SectorOps(SetMin(S)) \o ExpectedOps(S \ {SetMin(S)})

IsPrefix(a, b) == Len(a) <= Len(b) /\ \A i \in DOMAIN a : a[i] = b[i]

\* C1: in a differential write the erase and write calls issued are, sector by
\* sector in ascending order, for every sector whose old and new contents
\* differ: one erase_sector at the sector's base, then sector_size/0x80
\* write_page calls at ascending addresses, each with the matching slice of the
\* new image. Between two sectors the calls issued are exactly those of the
\* differing sectors below the position, and at the end those of all of them.
C1_DiffWriteOrder ==
    InDiffWrite =>
        LET issued == DiffOps
            dirty == DirtySectors
            expected == ExpectedOps(dirty)
        IN  /\ IsPrefix(issued, expected)
            /\ (pc = "diff" /\ step = "ret") =>
                  Len(issued) = Cardinality({k \in dirty : k * self.sector_size < pos})
                                    * (PagesPerSector + 1)
            /\ pc \in {"sleeping", "done"} => issued = expected

\* A run that rewrote two sectors and ended
C1_Witness ==
    /\ pc = "done"
    /\ mode = "write"
    /\ Cardinality(DirtySectors) = 2
    /\ Len(DiffOps) = 2 * (PagesPerSector + 1)

\* C2: a differential write issues no erase_sector and no write_page at an
\* address of a sector whose old and new contents are equal; with old = new it
\* issues none at all.
C2_CleanSectorsUntouched ==
    InDiffWrite =>
        LET issued == DiffOps
            dirty == DirtySectors
        IN  /\ \A i \in DOMAIN issued :
                  (issued[i].address \div self.sector_size) \in dirty
            /\ original_content = new_content => issued = <<>>

\* A run over images equal in sector 0, which is not blank, and differing in sector 3
C2_Witness ==
    /\ pc = "done"
    /\ mode = "write"
    /\ At(original_content, 0) = ProbeByte(0)
    /\ DirtySectors = {3}
    /\ Len(DiffOps) > 0

\* The byte a whole-card read returns for page p: read_page at the page's
\* 0x200 block, whose address bytes the card decodes.
ReadBack(p) ==
    LET address == ((p * WRITE_SZ) \div READ_SZ) * READ_SZ
        at == CardAddress(addr_to_bytes(address))
    IN  CardPage((at \div WRITE_SZ) + (p % (READ_SZ \div WRITE_SZ)))

\* The pages the run may have changed, as the card or as the tool numbers them
TouchedPages ==
    LET S == DOMAIN mem \cup DOMAIN flash0.patch \cup DOMAIN new_content.patch
        wrap == AddressSpace \div WRITE_SZ
    IN  { p \in S \cup { q + wrap : q \in S } : p < self.card_size \div WRITE_SZ }

DiffWriteDone == pc = "done" /\ mode = "write" /\ original_content = flash0

\* C3: on a functional card whose content was the old image, a differential
\* write that succeeded, followed by a read of the whole card, returns the new
\* image.
C3_WriteReadRoundTrip ==
    DiffWriteDone => \A p \in TouchedPages : ReadBack(p) = At(new_content, p)

\* The round trip of C3 on the cards whose addresses the 4 address bytes carry.
C3_Below16MiB ==
    (DiffWriteDone /\ self.card_size <= AddressSpace) =>
        \A p \in TouchedPages : ReadBack(p) = At(new_content, p)

(***************************************************************************)
(* The construction of the session.                                        *)
(***************************************************************************)
NothingAttached == ValueError("Nothing plugged ?")
NotAMemoryCard == ValueError("Not a memory card ?")

\* The identification word was read
ExiIdRead == call.name = "__init__" /\ step \notin {"", "init_exi"}

\* Some bit of 0xffffc003 is set in the word of bytes b (most significant first)
ReservedBitSet(b) == b[1] # 0 \/ b[2] # 0 \/ b[3] \div 64 # 0 \/ b[4] % 4 # 0

\* C7: construction fails with NothingAttached when exi_id returned all zero,
\* with NotAMemoryCard when the id is not zero and has a bit of 0xffffc003 set;
\* in both cases exi_id is the only bus transaction.
C7_RejectedIds ==
    ExiIdRead =>
        /\ exi = <<0, 0, 0, 0>> =>
              (step = "raised" /\ err = NothingAttached /\ bus = <<xfer_exi_id>>)
        /\ (exi # <<0, 0, 0, 0>> /\ ReservedBitSet(exi)) =>
              (step = "raised" /\ err = NotAMemoryCard /\ bus = <<xfer_exi_id>>)

\* An id with bit 14 set was rejected
C7_Witness ==
    /\ exi = ExiReserved14
    /\ step = "raised"
    /\ err = NotAMemoryCard
    /\ bus = <<xfer_exi_id>>

\* C8 (as stated): from the id 0x00000085 construction derives 512 KiB, a
\* turnaround of 4 bytes and a sector size of 0x2000.
C8_Id85 ==
    (ExiIdRead /\ exi = Exi85) =>
        /\ self.card_size = 512 * 1024
        /\ self.turnaround_bytes = 4
        /\ self.sector_size = 8192

\* C8 (amended): the id 0x00000085 has bit 0 set and is rejected as not a
\* memory card; from the id 0x00000004 construction derives 512 KiB, a
\* turnaround of 4 bytes and a sector size of 0x2000.
C8_Id04 ==
    /\ (ExiIdRead /\ exi = Exi85) => (step = "raised" /\ err = NotAMemoryCard)
    /\ (ExiIdRead /\ exi = Exi512K) =>
          /\ self.card_size = 512 * 1024
          /\ self.turnaround_bytes = 4
          /\ self.sector_size = 8192

\* The session of the 512 KiB card is constructed
C8_Witness ==
    /\ exi = Exi512K
    /\ call.name = "__init__"
    /\ step = "ret"
    /\ self.card_size = 512 * 1024

(***************************************************************************)
(* The address codec.                                                      *)
(***************************************************************************)
Decoded == fcall \in {"decoded", "unpacked", "decoded_raspi", "unpacked_raspi"}

\* C9 (as stated): for every address a in [0, 2^26), decoding the 4 bytes of
\* the encoder gives a.
C9_RoundTrip26 == (Decoded /\ fin < 2 ^ AddrBits) => fout = fin

\* C9 (amended): for every address a in [0, 2^24), decoding the 4 bytes of the
\* encoder gives a.
C9_RoundTrip24 == (Decoded /\ fin < AddressSpace) => fout = fin

\* An address with bit 23 set went through the encoder of the session and back
C9_Witness ==
    /\ fcall = "decoded"
    /\ fin >= 2 ^ 23
    /\ fin < AddressSpace
    /\ fout = fin

(***************************************************************************)
(* The checksum.                                                           *)
(***************************************************************************)
Words(data) == [k \in 1 .. (Len(data) \div 2) |-> data[2 * k - 1] * 256 + data[2 * k]]

RECURSIVE SumRange(_, _, _)
SumRange(s, lo, hi) ==
    IF lo > hi THEN 0
    ELSE IF lo = hi THEN s[lo]
    ELSE SumRange(s, lo, (lo + hi) \div 2) + SumRange(s, (lo + hi) \div 2 + 1, hi)
SeqSum(s) == SumRange(s, 1, Len(s))

OnesComplements(data) ==
    LET w == Words(data) IN [k \in DOMAIN w |-> 65535 - w[k]]

Normalised(x) == IF x = 65535 THEN 0 ELSE x

\* C10: for a region of even length L <= 512 the checksum returns the sum of
\* its big-endian 16-bit words mod 2^16, and (-(sum + L/2)) mod 2^16, which is
\* the sum of the one's complements of the words mod 2^16, each replaced by 0
\* when it is 0xffff.
C10_Checksum ==
    (fcall = "checksummed" /\ Len(fin) % 2 = 0 /\ Len(fin) <= 512) =>
        LET sum == SeqSum(Words(fin))
        IN  /\ fout.raise = ""
            /\ fout.ret[1] = Normalised(sum % 65536)
            /\ fout.ret[2] = Normalised((-(sum + Len(fin) \div 2)) % 65536)
            /\ (-(sum + Len(fin) \div 2)) % 65536 = SeqSum(OnesComplements(fin)) % 65536

\* A region whose two sums are both 0xffff
C10_Witness ==
    /\ fcall = "checksummed"
    /\ fin = <<255, 255, 0, 0>>
    /\ fout.ret = <<0, 0>>

(***************************************************************************)
(* The cipher's seed transform.                                            *)
(***************************************************************************)
\* Bit i of the word w
WordBit(w, i) == IF i < 16 THEN Shr(w[2], i) % 2 ELSE Shr(w[1], i - 16) % 2

\* C11: the seed transform of the cipher reverses the bits of a 32-bit word
\* (bit i of the seed is bit 31 - i of the state), applying it twice gives the
\* word back, and the seed 0x7fec8000 gives the state 0x000137fe.
C11_SeedTransform ==
    /\ fcall \in {"seeded", "reseeded"} =>
          /\ \A h \in 1 .. 2 : fmid[h] \in 0 .. 65535
          /\ \A i \in 0 .. 31 : WordBit(fmid, 31 - i) = WordBit(fin, i)
          /\ fin = UnlockSeed => fmid = <<1, 14334>>
    /\ fcall = "reseeded" => fout = fin

\* The seed of the unlock handshake went through the transform twice
C11_Witness ==
    /\ fcall = "reseeded"
    /\ fin = UnlockSeed
    /\ fmid = <<1, 14334>>
    /\ fout = fin

(***************************************************************************)
(* The serial of the header.                                               *)
(***************************************************************************)
\* C12: for every serial of 12 bytes and every time value t (of 64 bits),
\* after setEncodedSerial(serial, t) the decoded serial of the header is serial
\* and the header's time field is t.
C12_SerialRoundTrip ==
    /\ (fcall \in {"serial_set", "serial_decoded"} /\ Len(fin.serial) = 12) =>
          fmid.time = fin.time
    /\ (fcall = "serial_decoded" /\ Len(fin.serial) = 12) => fout = fin.serial

\* A serial that the encoding changed came back, over a header of another time
C12_Witness ==
    /\ fcall = "serial_decoded"
    /\ fin.serial = CardSerial
    /\ fin.header.time # fin.time
    /\ fmid.serial # fin.serial
    /\ fout = fin.serial

(***************************************************************************)
(* The read of the whole card.                                             *)
(***************************************************************************)
IsReadOp(o) == o.op = "read_page"

\* The read_page calls of the read loop: those after the read of the header
LoopReads == Tail(SelectSeq(ops, IsReadOp))

InReadMode == mode = "read" /\ pc \in {"read", "reading", "sleeping", "done"}

ReadModeOver == mode = "read" /\ pc \in {"sleeping", "done"}

\* C13: a read of the whole card issues card_size/0x200 read_page calls, at
\* the addresses 0, 0x200, 0x400, ... in this order, each of length 0x200 and
\* below card_size, and the image written has card_size bytes.
C13_WholeCardRead ==
    InReadMode =>
        LET reads == LoopReads
        IN  /\ \A i \in DOMAIN reads :
                  /\ reads[i].address = (i - 1) * 512
                  /\ reads[i].length = 512
                  /\ reads[i].address < self.card_size
            /\ Len(reads) <= self.card_size \div 512
            /\ ReadModeOver =>
                  /\ Len(reads) = self.card_size \div 512
                  /\ output.len = self.card_size

\* The card was read whole
C13_Witness ==
    /\ mode = "read"
    /\ pc = "done"
    /\ Len(LoopReads) = 1024
    /\ output.len = 512 * 1024

(***************************************************************************)
(* The sizes of the images of a differential write.                        *)
(***************************************************************************)
SizeMismatch == ValueError("image size mismatch")

\* The files of the differential write were read
ImagesRead == mode = "write" /\ new_content # NoImage

\* C14: when the old or the new image is not card_size long, shorter or
\* longer, the differential write fails with the size mismatch error and no
\* erase_sector and no write_page was issued.
C14_SizeMismatch ==
    (ImagesRead /\ (original_content.len # self.card_size \/ new_content.len # self.card_size)) =>
        /\ step = "raised"
        /\ err = SizeMismatch
        /\ DiffOps = <<>>
        /\ mem = NoPatch

\* An old image that is too long, with a new image of the size of the card
C14_Witness ==
    /\ ImagesRead
    /\ original_content.len = self.card_size + 1
    /\ new_content.len = self.card_size
    /\ step = "raised"
    /\ err = SizeMismatch

(***************************************************************************)
(* The end of a run of the tool.                                           *)
(***************************************************************************)
SessionConstructed == pc \notin {"", "start", "constructing"}

\* main() has returned, or an exception has left it
RunOver == pc = "done" \/ step = "raised"

\* C15: in every run of the tool in which a session was constructed, the sleep
\* command (0x88) is sent after the chosen operation and is the last bus
\* transaction of the run.
C15_SleepLast ==
    (SessionConstructed /\ RunOver) => (bus # <<>> /\ bus[Len(bus)] = xfer_sleep)

\* The runs that main() ends by returning do end with the sleep command.
C15_SleepLastOnReturn ==
    pc = "done" => (bus = <<xfer_sleep>> /\ ops[Len(ops)].op = "sleep")

(***************************************************************************)
(* The wait for the card to turn idle.                                     *)
(***************************************************************************)
Timeout == TimeoutError

\* The method leaves its edge-triggered wait in this step
LeavesEventWait == step = "wait" /\ self.has_interrupt /\ step' # "wait"

\* A client's get_status returns in this step
GetStatusReturns == call.name = "get_status" /\ step = "tx" /\ step' = "ret"

\* C16: in edge-triggered mode a wait-idle during which no falling edge
\* arrives (the card is still BUSY with the command when the wait is left)
\* fails with Timeout, the failure changes nothing of the session (its fields,
\* the events queued on its line) nor of the card, and a get_status issued
\* afterwards returns the status the card reports.
C16_EdgeTimeout ==
    [][ /\ (LeavesEventWait /\ Has(status, BUSY)) =>
              /\ step' = "raised"
              /\ err' = Timeout
              /\ self' = self
              /\ events' = events
              /\ status' = status
              /\ bus' = bus
        /\ GetStatusReturns =>
              /\ last_status' = status
              /\ bus' = <<xfer_get_status_of(status)>>
              /\ self' = self ]_vars

\* The same of the waits that find no edge queued on the line, whenever it fell
C16_NoEdgeQueued ==
    [][ /\ (LeavesEventWait /\ events = 0) =>
              /\ step' = "raised"
              /\ err' = Timeout
              /\ self' = self
              /\ events' = events
              /\ status' = status
              /\ bus' = bus
        /\ GetStatusReturns =>
              /\ last_status' = status
              /\ bus' = <<xfer_get_status_of(status)>>
              /\ self' = self ]_vars

\* After a wait that timed out with the card still BUSY, get_status returned
\* the status of the card
C16_TimedOut ==
    /\ self.has_interrupt
    /\ ncalls = 2
    /\ Len(ops) = 1
    /\ call.name = "get_status"
    /\ step = "ret"
    /\ Has(last_status, BUSY)
    /\ last_status = status

(***************************************************************************)
(* The unlock handshake that the card does not take.                       *)
(***************************************************************************)
IsUnlockRead(x) == x.cmd = "unlock_read"

\* __init__ has ended, and the status read at the end of its handshake has
\* UNLOCKED clear
UnlockNotTaken ==
    /\ call.name = "__init__"
    /\ step \in {"ret", "raised"}
    /\ Len(SelectSeq(bus, IsUnlockRead)) > 0
    /\ ~Has(bus[Len(bus)].reply[1], UNLOCKED)

\* C17: when the status read at the end of the unlock handshake has UNLOCKED
\* clear, the construction fails with UnlockFailed: main holds no session (it
\* is still at the construction), no card id was recorded, and the handshake
\* was sent once (its two response transfers appear once on the bus, the
\* status read is the last transaction of the run).
C17_UnlockFailed ==
    UnlockNotTaken =>
        /\ step = "raised"
        /\ err = UnlockFailed
        /\ pc = "constructing"
        /\ self.flash_id = NoFlashId
        /\ Len(bus) >= 5
        /\ bus[Len(bus)] = xfer_get_status_of(status)
        /\ \A i \in 1 .. 4 : bus[Len(bus) - i].cmd \in {"read_page", "unlock_read"}
        /\ Len(SelectSeq(bus, IsUnlockRead)) = 2
        /\ ops = <<>>
        /\ ~ENABLED Next

\* The construction failed on a card that was woken up and did not unlock
C17_Witness ==
    /\ UnlockNotTaken
    /\ step = "raised"
    /\ Len(bus) = 9
    /\ bus[3] = xfer_wake_up

(***************************************************************************)
(* The polling loop of the wait.                                           *)
(***************************************************************************)
\* The polled wait of the method is left in this step
PolledWaitEnds == step = "wait" /\ ~self.has_interrupt /\ step' # "wait"

\* The transactions of this step
StepTransfers == SubSeq(bus', Len(bus) + 1, Len(bus'))

\* C18: without the interrupt the wait for idle always ends; it sends at
\* least one and at most timeout * 1000 get_status commands and nothing else,
\* it returns at the first of them that shows BUSY clear, and it fails with
\* Timeout exactly when all timeout * 1000 of them show BUSY.
C18_PolledWait ==
    /\ [][ PolledWaitEnds =>
             LET polls == StepTransfers
                 n == Len(polls)
             IN  /\ n >= 1
                 /\ n <= waitForIdle_timeout * 1000
                 /\ \A i \in 1 .. n : polls[i].cmd = "get_status"
                 /\ \A i \in 1 .. n - 1 : Has(polls[i].reply[1], BUSY)
                 /\ step' \in {"check", "raised"}
                 /\ step' = "check" <=> ~Has(polls[n].reply[1], BUSY)
                 /\ step' = "raised" <=>
                        (n = waitForIdle_timeout * 1000 /\ Has(polls[n].reply[1], BUSY))
                 /\ step' = "raised" => err' = Timeout ]_vars
    /\ (step = "wait" /\ ~self.has_interrupt) ~> (step # "wait")

\* A polled wait that timed out after all its polls
C18_Witness ==
    /\ ~self.has_interrupt
    /\ call.name = "erase_sector"
    /\ step = "raised"
    /\ err = Timeout
    /\ Len(bus) = 2 + waitForIdle_timeout * 1000
    /\ Has(bus[Len(bus)].reply[1], BUSY)

\* A polled wait that returned at its third poll
C18_ThirdPoll ==
    /\ ~self.has_interrupt
    /\ call.name = "write_page"
    /\ step = "check"
    /\ Len(bus) = 5
    /\ Has(bus[4].reply[1], BUSY)
    /\ ~Has(bus[5].reply[1], BUSY)

(***************************************************************************)
(* The bus sequence of the erases and of the program.                      *)
(***************************************************************************)
IsLongCommand(x) == x.cmd \in LongCommands
IsClearStatus(x) == x.cmd = "clear_status"
IsGetStatus(x) == x.cmd = "get_status"

\* The replies of the transactions b show BUSY
AllBusy(b) == \A i \in 1 .. Len(b) : Has(b[i].reply[1], BUSY)

\* The transactions b are a wait for idle of the session that returned
IsWaitThatReturned(b) ==
    IF self.has_interrupt THEN b = <<>>
    ELSE /\ Len(b) >= 1
         /\ Len(SelectSeq(b, IsGetStatus)) = Len(b)
         /\ AllBusy(SubSeq(b, 1, Len(b) - 1))
         /\ ~Has(b[Len(b)].reply[1], BUSY)

\* The transactions b are a wait for idle of the session that timed out
IsWaitThatTimedOut(b) ==
    IF self.has_interrupt THEN b = <<>>
    ELSE /\ Len(b) = waitForIdle_timeout * 1000
         /\ Len(SelectSeq(b, IsGetStatus)) = Len(b)
         /\ AllBusy(b)

\* C19: write_page, erase_sector and erase_card, called with valid arguments,
\* send clear_status, then their command once, then wait for idle, then one
\* get_status whose reply decides the error, in this order; when the wait
\* fails with Timeout that last get_status is not sent.
C19_LongCommandSequence ==
    (call.name \in LongCommands /\ ArgCheck(call) = NoErr) =>
        LET n == Len(bus)
            sent == <<xfer_clear_status, CommandXfer(call)>>
        IN  /\ Len(SelectSeq(bus, IsClearStatus)) <= 1
            /\ Len(SelectSeq(bus, IsLongCommand)) <= 1
            /\ step = "clear_status" => bus = <<>>
            /\ step = "tx" => bus = <<xfer_clear_status>>
            /\ step = "wait" => bus = sent
            /\ step \in {"check", "ret", "raised"} => (n >= 2 /\ SubSeq(bus, 1, 2) = sent)
            /\ step = "check" => IsWaitThatReturned(SubSeq(bus, 3, n))
            /\ (step = "raised" /\ err = Timeout) => IsWaitThatTimedOut(SubSeq(bus, 3, n))
            /\ (step = "ret" \/ (step = "raised" /\ err # Timeout)) =>
                  /\ n >= 3
                  /\ IsWaitThatReturned(SubSeq(bus, 3, n - 1))
                  /\ IsGetStatus(bus[n])
                  /\ err = CheckError(call, bus[n].reply[1])

\* An erase_sector on the interrupt line whose error check found ERASEERROR
C19_Witness ==
    /\ self.has_interrupt
    /\ call.name = "erase_sector"
    /\ step = "raised"
    /\ err = ValueError("Erase failed")
    /\ bus = <<xfer_clear_status, xfer_erase_sector(call.address),
               xfer_get_status_of(status)>>

\* A polled write_page that returned: two polls and the error check
C19_PolledReturn ==
    /\ ~self.has_interrupt
    /\ call.name = "write_page"
    /\ step = "ret"
    /\ Len(bus) = 5

\* An erase_card that timed out on the interrupt line: nothing after the command
C19_TimedOut ==
    /\ self.has_interrupt
    /\ call.name = "erase_card"
    /\ step = "raised"
    /\ err = Timeout
    /\ bus = <<xfer_clear_status, xfer_erase_card>>

(***************************************************************************)
(* The order of the transactions of the construction.                      *)
(***************************************************************************)
\* The transaction x is a get_status
StatusOf(x) == x.reply[1]

\* The commands of the unlock handshake, in their order
UnlockCommands == <<"read_page", "read_page", "unlock_read", "unlock_read", "get_status">>

Commands(b) == [i \in 1 .. Len(b) |-> b[i].cmd]

\* b, from its transaction k on, is the unlock handshake and nothing else when
\* the status s has UNLOCKED clear, and is nothing when s has it set
UnlockLast(b, k, s) ==
    IF Has(s, UNLOCKED) THEN Len(b) = k - 1
    ELSE Commands(SubSeq(b, k, Len(b))) = UnlockCommands

\* b, from its transaction k on, is the configuration of the interrupt on the
\* status s, then the unlock
InterruptThenUnlock(b, k, s) ==
    IF ~gpio
    THEN IF Has(s, INT_EN)
         THEN /\ Len(b) >= k
              /\ b[k] = xfer_set_interrupt(FALSE)
              /\ UnlockLast(b, k + 1, s)
         ELSE UnlockLast(b, k, s)
    ELSE IF ~Has(s, INT_EN)
         THEN /\ Len(b) >= k + 1
              /\ b[k] = xfer_set_interrupt(TRUE)
              /\ IsGetStatus(b[k + 1])
              /\ UnlockLast(b, k + 2, StatusOf(b[k + 1]))
         ELSE UnlockLast(b, k, s)

\* The construction went beyond the check of the id, and has ended
ConstructionEnded ==
    /\ call.name = "__init__"
    /\ step \in {"ret", "raised"}
    /\ Len(bus) >= 2

\* C20: the construction sends exi_id first, then get_status; wake_up and a
\* second get_status exactly when the first status has SLEEP set; then the
\* configuration of the interrupt; and the unlock handshake last, exactly
\* when the status read last before it has UNLOCKED clear.
C20_ConstructionOrder ==
    /\ (call.name = "__init__" /\ Len(bus) >= 1) => bus[1] = xfer_exi_id
    /\ (call.name = "__init__" /\ step = "ret") => Len(bus) >= 2
    /\ ConstructionEnded =>
          /\ IsGetStatus(bus[2])
          /\ IF Has(StatusOf(bus[2]), SLEEP)
             THEN /\ Len(bus) >= 4
                  /\ bus[3] = xfer_wake_up
                  /\ IsGetStatus(bus[4])
                  /\ InterruptThenUnlock(bus, 5, StatusOf(bus[4]))
             ELSE /\ Len(SelectSeq(bus, LAMBDA x : x.cmd = "wake_up")) = 0
                  /\ InterruptThenUnlock(bus, 3, StatusOf(bus[2]))

\* A card found asleep and locked, with the interrupt line: every step is taken
C20_Witness ==
    /\ ConstructionEnded
    /\ step = "ret"
    /\ Commands(bus) = <<"exi_id", "get_status", "wake_up", "get_status",
                         "set_interrupt", "get_status">> \o UnlockCommands

\* A card found awake, unlocked and with its interrupt enabled: two transactions
C20_Shortest ==
    /\ ConstructionEnded
    /\ step = "ret"
    /\ Len(bus) = 2

(***************************************************************************)
(* The interrupt of the session.                                           *)
(***************************************************************************)
\* The construction has configured the interrupt
InterruptConfigured ==
    /\ call.name = "__init__"
    /\ step \in {"init_unlock", "ret", "raised"}
    /\ Len(bus) >= 2

\* The status on which the construction configures the interrupt: the one read
\* first, or the one read after the wake_up
ConfigStatus == IF Len(bus) >= 4 /\ bus[3] = xfer_wake_up THEN StatusOf(bus[4])
                ELSE StatusOf(bus[2])

SetInterrupts(enable) ==
    Len(SelectSeq(bus, LAMBDA x : x = xfer_set_interrupt(enable)))

\* C21: once constructed, has_interrupt is true only if a signal line is bound
\* and the status read last had INT_EN set, so that only a session with a line
\* waits on it; without a line has_interrupt is false and set_interrupt(disable)
\* is sent exactly when the status had INT_EN set; with a line
\* set_interrupt(enable) is sent exactly when the status had INT_EN clear.
C21_HasInterrupt ==
    /\ InterruptConfigured =>
          /\ self.has_interrupt => (gpio /\ Has(last_status, INT_EN))
          /\ ~gpio => /\ SetInterrupts(FALSE) = (IF Has(ConfigStatus, INT_EN) THEN 1 ELSE 0)
                      /\ SetInterrupts(TRUE) = 0
          /\ gpio => /\ SetInterrupts(TRUE) = (IF Has(ConfigStatus, INT_EN) THEN 0 ELSE 1)
                     /\ SetInterrupts(FALSE) = 0
                     /\ self.has_interrupt = Has(last_status, INT_EN)
    /\ (SessionConstructed /\ self.has_interrupt) => gpio
    /\ ENABLED (waitForIdle_event \/ waitForIdle_event_timeout) => gpio

\* A construction on a line whose card had INT_EN clear and took the enable
C21_Witness ==
    /\ InterruptConfigured
    /\ step = "ret"
    /\ gpio
    /\ ~Has(ConfigStatus, INT_EN)
    /\ SetInterrupts(TRUE) = 1
    /\ self.has_interrupt

\* A constructed session that waits on its line
C21_WaitsOnLine ==
    /\ SessionConstructed
    /\ self.has_interrupt
    /\ step = "wait"

(***************************************************************************)
(* The cipher is consumed linearly.                                        *)
(***************************************************************************)
\* The number whose bits, the most significant first, are b
RECURSIVE BitsValue(_)
BitsValue(b) ==
    IF b = <<>> THEN 0
    ELSE 2 * BitsValue(SubSeq(b, 1, Len(b) - 1)) + b[Len(b)]

Is32Bits(w) == w[1] \in 0 .. 65535 /\ w[2] \in 0 .. 65535

\* C30: from any state, m bits and then n bits are the same bits and leave the
\* same state as m + n bits at once; the bits come the most significant first,
\* each one the bit 31 of the state before the step; the state stays within
\* 32 bits.
C30_Linear ==
    /\ fcall \in {"first", "second", "whole"} =>
          /\ Len(fmid[1].result) = fin.m
          /\ fin.m >= 1 => fmid[1].result[1] = Bit(fin.state[1], 15)
          /\ Is32Bits(fmid[1].state)
    /\ fcall \in {"second", "whole"} =>
          /\ Len(fmid[2].result) = fin.n
          /\ fin.n >= 1 => fmid[2].result[1] = Bit(fmid[1].state[1], 15)
          /\ Is32Bits(fmid[2].state)
    /\ fcall = "whole" =>
          /\ fout.result = fmid[1].result \o fmid[2].result
          /\ fout.state = fmid[2].state
          /\ fin.m + fin.n <= 2 * MaxBits =>
                BitsValue(fout.result) =
                    BitsValue(fmid[1].result) * (2 ^ fin.n) + BitsValue(fmid[2].result)

\* 3 bits and then 5 bits of the cipher of the handshake, then 8 at once
C30_Witness ==
    /\ fcall = "whole"
    /\ fin = [state |-> cipher_init(UnlockSeed), m |-> 3, n |-> 5]
    /\ Len(fout.result) = 8

\* 40 bits and then 40 bits, then 80 at once
C30_LongRun ==
    /\ fcall = "whole"
    /\ fin.m + fin.n = 80
    /\ Len(fout.result) = 80
    /\ fout.state # fin.state

(***************************************************************************)
(* The hash of the challenge, with all arithmetic modulo 2^32: a word is   *)
(* its 4 bytes, the most significant first.                                *)
(***************************************************************************)
BytesOfNat(n) == <<0, 0, n \div 256, n % 256>>

\* a + b modulo 2^32
BytesAdd(a, b) ==
    LET s4 == a[4] + b[4]
        s3 == a[3] + b[3] + s4 \div 256
        s2 == a[2] + b[2] + s3 \div 256
        s1 == a[1] + b[1] + s2 \div 256
    IN  <<s1 % 256, s2 % 256, s3 % 256, s4 % 256>>

BytesXor(a, b) == <<BitXor(a[1], b[1]), BitXor(a[2], b[2]), BitXor(a[3], b[3]), BitXor(a[4], b[4])>>
BytesAnd(a, b) == <<BitAnd(a[1], b[1]), BitAnd(a[2], b[2]), BitAnd(a[3], b[3]), BitAnd(a[4], b[4])>>
BytesOr(a, b) == <<BitOr(a[1], b[1]), BitOr(a[2], b[2]), BitOr(a[3], b[3]), BitOr(a[4], b[4])>>
BytesNot(a) == <<255 - a[1], 255 - a[2], 255 - a[3], 255 - a[4]>>

\* The right rotation of the 32 bits by one byte, and by s < 8 bits
BytesRotrByte(a) == <<a[4], a[1], a[2], a[3]>>
BytesRotrBits(a, s) ==
    LET low(x) == x % (2 ^ s)
        up(x) == x * (2 ^ (8 - s))
    IN  <<Shr(a[1], s) + up(low(a[4])), Shr(a[2], s) + up(low(a[1])),
          Shr(a[3], s) + up(low(a[2])), Shr(a[4], s) + up(low(a[3]))>>

\* The right rotation of the 32 bits by r
RECURSIVE BytesRotr(_, _)
BytesRotr(a, r) ==
    IF r >= 8 THEN BytesRotr(BytesRotrByte(a), r - 8) ELSE BytesRotrBits(a, r)

\* The nibble k (1 the first) of the challenge c, high nibbles first
Nibble(c, k) ==
    LET byte == c[(k + 1) \div 2]
    IN  IF k % 2 = 1 THEN byte \div 16 ELSE byte % 16

\* The hash after the turn j (0: before the first) over the challenge c
RECURSIVE HashAfter(_, _)
HashAfter(c, j) ==
    IF j = 0
    THEN [running |-> BytesAdd(BytesOfNat(SumOf(c)), WordBytes(RunningSumStart)),
          hash |-> WordBytes(ChallengeHashStart),
          key0 |-> WordBytes(Key0Start),
          key1 |-> WordBytes(Key1Start)]
    ELSE LET p == HashAfter(c, j - 1)
             n0 == Nibble(c, 2 * j - 1)
             n1 == Nibble(c, 2 * j)
             n2 == Nibble(c, 2 * j + 1)
             n3 == Nibble(c, 2 * j + 2)
             swap_offset == SumOf(c) + 9 + (j - 1)
             t == BytesXor(BytesXor(BytesOr(BytesOfNat(IF n3 >= 8 THEN 65280 ELSE 0),
                                            BytesOfNat(n3 * 16 + n1)),
                                    BytesOfNat(n0 * 256)),
                           BytesOfNat(n2 * 4096))
             running == BytesAdd(p.running, t)
             hash == BytesAdd(p.hash,
                              BytesRotr(BytesAdd(BytesXor(p.key0, p.key1), running),
                                        swap_offset % 32))
             high == BytesAnd(running, p.key1)
             key0 == BytesOr(BytesOr(BytesAnd(BytesNot(running), hash),
                                     <<0, 0, p.key1[1], p.key1[2]>>),
                             <<high[1], high[2], 0, 0>>)
             key1 == BytesXor(BytesXor(running, hash), key0)
         IN  [running |-> running, hash |-> hash, key0 |-> key0, key1 |-> key1]

\* The response: the hash after the 7 turns
HashResponse(c) == HashAfter(c, 7).hash

\* C24: for every challenge of 8 bytes the response of the code is the hash
\* computed with all arithmetic modulo 2^32: 7 turns, for swap_offset from
\* S + 9 to S + 15, over the 7 pairs of nibbles that follow the first; the
\* rotation is one of the 32 bits of (key0 ^ key1) + running by the low 5 bits
\* of swap_offset; the response is 4 bytes.
C24_ChallengeHash ==
    fcall = "response" =>
        /\ fout = HashResponse(fin)
        /\ Len(fout) = 4
        /\ \A i \in 1 .. 4 : fout[i] \in 0 .. 255

\* The responses that the code gives to four challenges
C24_Witness ==
    /\ fcall = "response"
    /\ fin = <<1, 35, 69, 103, 137, 171, 205, 239>>
    /\ fout = <<155, 95, 225, 251>>

C24_AllOnes ==
    /\ fcall = "response"
    /\ fin = <<255, 255, 255, 255, 255, 255, 255, 255>>
    /\ fout = <<192, 154, 194, 139>>

C24_Mixed ==
    /\ fcall = "response"
    /\ fin = <<0, 127, 248, 0, 127, 248, 127, 0>>
    /\ fout = <<247, 252, 155, 15>>


(***************************************************************************)
(* The unlock handshake, against the bits of one cipher taken in a row.    *)
(***************************************************************************)
\* The bytes value with the bits that follow the first k bits of keystream
Deciphered(keystream, k, value) ==
    [i \in 1 .. Len(value) |-> BitXor(BitsByte(keystream, k + 8 * (i - 1)), value[i])]

\* The bits the handshake takes from its cipher, for t turnaround bytes: 32 and
\* one, 192 and one, those of an unlock read and one, those of an unlock read
HandshakeBits(t) == 32 + 1 + 192 + 1 + 8 * (8 + t) + 1 + 8 * (8 + t)

Keystream(t) == get_bits(cipher_init(UnlockSeed), HandshakeBits(t)).result

ReadsOf(b) == SelectSeq(b, LAMBDA x : x.cmd = "read_page")
UnlockReadsOf(b) == SelectSeq(b, LAMBDA x : IsUnlockRead(x))

\* __init__ has returned
InitReturned == call.name = "__init__" /\ step = "ret"

\* The bytes the 24-byte read of the handshake received, deciphered
HandshakeData == Deciphered(Keystream(0), 33, ReadsOf(bus)[2].reply)

\* C22: when __init__ returns, flash_id is absent exactly when the status the
\* construction read had UNLOCKED set (and then no handshake was made);
\* otherwise it is the first 12 of the 24 bytes of the second read of the
\* handshake, deciphered with the bits 34 to 225 of the cipher. No step taken
\* once __init__ has returned changes it.
C22_FlashId ==
    /\ [](InitReturned =>
            IF Has(last_status, UNLOCKED)
            THEN /\ self.flash_id = NoFlashId
                 /\ ReadsOf(bus) = <<>>
            ELSE /\ Len(ReadsOf(bus)) = 2
                 /\ Len(ReadsOf(bus)[2].reply) = 24
                 /\ self.flash_id = SubSeq(HandshakeData, 1, 12)
                 /\ self.flash_id # NoFlashId)
    /\ [][(InitReturned \/ SessionConstructed) => self'.flash_id = self.flash_id]_vars

\* A locked card was unlocked, and the session has gone on to write its image
C22_Witness ==
    /\ SessionConstructed
    /\ self.flash_id = CardSerial
    /\ Len(ops) >= 1
    /\ ops[Len(ops)].op \in {"erase_sector", "write_page"}

\* A card found unlocked: the session has no flash_id while it writes
C22_FoundUnlocked ==
    /\ SessionConstructed
    /\ self.flash_id = NoFlashId
    /\ Len(ops) >= 1
    /\ ops[Len(ops)].op \in {"erase_sector", "write_page"}

\* The handshake of b for t turnaround bytes: the last five transactions
HandshakeOf(b) == SubSeq(b, Len(b) - 4, Len(b))

\* The bytes an unlock read carries after 0x52, before the cipher
UnlockReadBytes(two, t) == two \o <<0, 0>> \o [i \in 1 .. t |-> 0] \o <<0, 0, 0, 0>>

\* h is the handshake for t turnaround bytes
IsHandshake(h, t) ==
    \E keystream \in { Keystream(t) } :
    \E challenge \in { SubSeq(Deciphered(keystream, 33, h[2].reply), 13, 20) } :
    \E response \in { HashResponse(challenge) } :
    \E first \in { Deciphered(keystream, 226, UnlockReadBytes(SubSeq(response, 1, 2), t)) } :
    \E second \in { Deciphered(keystream, 226 + 8 * (8 + t) + 1,
                               UnlockReadBytes(SubSeq(response, 3, 4), t)) } :
        /\ h[1].cmd = "read_page" /\ h[1].tx = <<82, 3, 255, 1, 72>> /\ h[1].rx = 4
        /\ Len(h[1].reply) = 4
        /\ h[2].cmd = "read_page" /\ h[2].tx = <<82, 0, 0, 0, 0>> /\ h[2].rx = 24
        /\ Len(h[2].reply) = 24
        /\ h[3].cmd = "unlock_read" /\ h[3].tx = <<82>> \o first
        /\ h[4].cmd = "unlock_read" /\ h[4].tx = <<82>> \o second
        /\ h[5].cmd = "get_status" /\ h[5].tx = <<131, 0>> /\ h[5].rx = 1

\* C23: a construction that has ended made no handshake, or made it whole: two
\* raw reads and two unlock reads in all, in the last five transactions, which
\* are the read of 4 bytes at 03 ff 01 48, the read of 24 bytes at 00 00 00 00,
\* the unlock read of the first two bytes of the response, the unlock read of
\* the two others, and get_status; the enciphered bytes are those of one
\* cipher that gives its bits in that order, one bit being dropped after each
\* of the two reads and between the two unlock reads. It is made when the
\* construction returns from a card found locked.
C23_Handshake ==
    (call.name = "__init__" /\ step \in {"ret", "raised"}) =>
        /\ (step = "ret" /\ ~Has(last_status, UNLOCKED)) => UnlockReadsOf(bus) # <<>>
        /\ (ReadsOf(bus) # <<>> \/ UnlockReadsOf(bus) # <<>>) =>
              /\ Len(ReadsOf(bus)) = 2
              /\ Len(UnlockReadsOf(bus)) = 2
              /\ Len(bus) >= 5
              /\ IsHandshake(HandshakeOf(bus), self.turnaround_bytes)

\* The handshake answered by the card with the challenge 01 23 45 67 89 ab cd
\* ef, for 4 turnaround bytes
C23_Witness ==
    /\ InitReturned
    /\ self.turnaround_bytes = 4
    /\ Len(bus) >= 5
    /\ HandshakeOf(bus)[3].tx = <<82, 97, 145, 88, 254, 16, 95, 255, 179, 204, 192, 191, 43>>
    /\ HandshakeOf(bus)[4].tx = <<82, 167, 59, 128, 6, 2, 26, 225, 10, 10, 43, 22, 220>>

\* The handshake that the card refused
C23_Refused ==
    /\ call.name = "__init__"
    /\ step = "raised"
    /\ Len(UnlockReadsOf(bus)) = 2
    /\ ~Has(status, UNLOCKED)


(***************************************************************************)
(* A command that fails during the differential write.                     *)
(***************************************************************************)
\* erase_sector or write_page, called by the differential write, has raised
\* after its command was sent: the wait timed out, or the status read after it
\* had the error flag of the command
DiffWriteFailed ==
    /\ pc \in {"erase", "write"}
    /\ step = "raised"
    /\ err \in {Timeout, EraseFailed, ProgramFailed}

\* C25: when erase_sector or write_page raises Timeout, EraseFailed or
\* ProgramFailed during the differential write, its command has been sent
\* once, it is the last erase_sector or write_page call made, and from then
\* on no transaction and no call is added: the run stays failed.
C25_NoRetry ==
    /\ [](DiffWriteFailed =>
            /\ Len(SelectSeq(bus, LAMBDA x : x.cmd = call.name)) = 1
            /\ ops[Len(ops)] = LogOp(call)
            /\ Len(SelectSeq(ops, LAMBDA o : o = LogOp(call))) = 1)
    /\ [][DiffWriteFailed => (bus' = bus /\ ops' = ops /\ DiffWriteFailed')]_vars

\* A write_page that failed to program, after the erase of its sector (the
\* exception write_page raises for PROGRAMEERROR is the one of a failed erase)
C25_Witness ==
    /\ DiffWriteFailed
    /\ pc = "write"
    /\ Has(status, PROGRAMEERROR)
    /\ err = EraseFailed
    /\ Len(DiffOps) >= 2

\* An erase_sector that failed
C25_EraseFailed == DiffWriteFailed /\ pc = "erase" /\ err = EraseFailed

\* A command of the differential write that timed out
C25_Timeout == DiffWriteFailed /\ err = Timeout


(***************************************************************************)
(* The read transactions.                                                  *)
(***************************************************************************)
\* The number of turnaround bytes of a card answering the id b: 4 << n, n being
\* bits 8 to 10 of the id
TurnaroundOf(b) == 4 * 2 ^ (b[3] % 8)

\* x is a read of want bytes with the given address bytes: 0x52 and the
\* address bytes, the turnaround bytes of the card, the bytes received
IsReadOf(x, address_bytes, want) ==
    /\ x.tx = <<82>> \o address_bytes
    /\ Len(x.tx) = 5
    /\ x.pad = TurnaroundOf(exi)
    /\ x.data = NoData
    /\ x.rx = want

\* C26: every read on the bus is 0x52 and 4 address bytes, then as many
\* turnaround bytes as bits 8 to 10 of the exi_id of the card give, then the
\* bytes received, as many as were asked for: those of the call for read_page
\* (at the address bytes of its address), 4 and 24 for the reads of the
\* handshake. The session's number of turnaround bytes is that number from
\* its assignment on.
C26_ReadTransaction ==
    /\ self.turnaround_bytes # Unset => self.turnaround_bytes = TurnaroundOf(exi)
    /\ \A i \in DOMAIN bus :
          bus[i].cmd = "read_page" =>
              IF call.name = "read_page"
              THEN IsReadOf(bus[i], addr_to_bytes(call.address), call.length)
              ELSE /\ call.name = "__init__"
                   /\ \/ IsReadOf(bus[i], <<3, 255, 1, 72>>, 4)
                      \/ IsReadOf(bus[i], <<0, 0, 0, 0>>, 24)

\* A card of 8 turnaround bytes was unlocked and is read: the reads of the
\* handshake and the read of the loop have 8 turnaround bytes
C26_Witness ==
    /\ pc = "reading"
    /\ step = "ret"
    /\ self.flash_id = CardSerial
    /\ Len(bus) = 1
    /\ bus[1].cmd = "read_page"
    /\ bus[1].pad = 8
    /\ bus[1].rx = READ_SZ

\* The reads of the handshake of that card
C26_HandshakeReads ==
    /\ InitReturned
    /\ Len(ReadsOf(bus)) = 2
    /\ ReadsOf(bus)[1].pad = 8
    /\ ReadsOf(bus)[2].pad = 8

\* The read of the header, of 512 bytes, by a card of 4 turnaround bytes
C26_Header ==
    /\ pc \in {"open", "read", "sleep"}
    /\ Len(bus) = 3
    /\ bus[3].cmd = "read_page"
    /\ bus[3].pad = 4
    /\ bus[3].rx = HeaderSize


(***************************************************************************)
(* The address bytes of the pages of a card.                               *)
(***************************************************************************)
\* C27 (as stated): two distinct multiples of 0x80 below the size of the card
\* have distinct address bytes, for every size an accepted id gives.
C27_DistinctAddressBytes == fcall = "encoded_pair" => fmid[1] # fmid[2]

\* They do on the cards of at most 16 MiB
C27_UpTo16MiB ==
    (fcall = "encoded_pair" /\ exi_card_size(fin.id) <= AddressSpace) => fmid[1] # fmid[2]

\* The last page below 16 MiB and the first page of a card of 16 MiB
C27_Below16MiB ==
    /\ fcall = "encoded_pair"
    /\ exi_card_size(fin.id) = AddressSpace
    /\ fin.a = 0
    /\ fin.b = AddressSpace - 128
    /\ fmid = << <<0, 0, 0, 0>>, <<127, 255, 3, 0>> >>

(***************************************************************************)
(* The geometry of the session, over the identification words.             *)
(***************************************************************************)
\* The id b is not zero and has no bit of 0xffffc003
IdAccepted(b) == b # <<0, 0, 0, 0>> /\ ~ReservedBitSet(b)

\* The index of the sector size in the id b: its bits 11 to 13
SectorIndexOf(b) == (b[3] \div 8) % 8

\* The construction is beyond the derivation of the geometry
GeometryDerived == call.name = "__init__" /\ step \in {"init_int", "init_unlock", "ret"}

\* C28 (as stated): for every id that is not zero and has no bit of
\* 0xffffc003, the construction derives the size, the turnaround and the
\* sector size without raising, and reads the status next.
C28_AcceptedIdConstructs ==
    (ExiIdRead /\ IdAccepted(exi)) =>
        /\ step # "raised"
        /\ self.card_size = (exi[4] \div 4) * (2 ^ 19)
        /\ self.turnaround_bytes = TurnaroundOf(exi)
        /\ self.sector_size = 8192 * 2 ^ SectorIndexOf(exi)
        /\ Len(bus) >= 2 => IsGetStatus(bus[2])

\* It does for the ids whose sector size index is 0 to 5
C28_SectorIndexBelow6 ==
    (ExiIdRead /\ IdAccepted(exi) /\ SectorIndexOf(exi) < 6) =>
        /\ step # "raised"
        /\ self.card_size = (exi[4] \div 4) * (2 ^ 19)
        /\ self.turnaround_bytes = TurnaroundOf(exi)
        /\ self.sector_size = 8192 * 2 ^ SectorIndexOf(exi)
        /\ Len(bus) >= 2 => IsGetStatus(bus[2])

\* The id 0x00003ffc, of the largest fields, raised IndexError with the exi_id
\* read as its only transaction
C28_IndexError ==
    /\ exi = <<0, 0, 63, 252>>
    /\ call.name = "__init__"
    /\ step = "raised"
    /\ err = IndexError
    /\ bus = <<xfer_exi_id>>

\* C29: in every session whose construction derived its geometry, and in
\* every session constructed, card_size is a multiple of sector_size and of
\* 0x200 (so main's assertions on total_size hold), and sector_size is a
\* multiple of 0x80 (so does the one on sector_size).
C29_Divisibility ==
    (GeometryDerived \/ SessionConstructed) =>
        /\ self.card_size % self.sector_size = 0
        /\ self.card_size % READ_SZ = 0
        /\ self.sector_size % WRITE_SZ = 0

\* The smallest card with the largest sectors: 512 KiB in two sectors of
\* 256 KiB
C29_Witness ==
    /\ InitReturned
    /\ self.card_size = 2 ^ 19
    /\ self.sector_size = 2 ^ 18

\* The largest card, of 31.5 MiB, in sectors of 256 KiB
C29_Largest ==
    /\ InitReturned
    /\ self.card_size = 63 * (2 ^ 19)
    /\ self.sector_size = 2 ^ 18

=============================================================================
